---- MODULE Spec2Model ----
(***************************************************************************)
(* pycoterm: the execution engine (PythonExecutor, a QThread whose run()   *)
(* executes one fragment per turn) and the terminal controller             *)
(* (TerminalWidget) that starts turns and answers input requests.          *)
(*                                                                         *)
(* Text is a sequence of tokens (strings); " " is the whitespace token.    *)
(* Python objects are named by strings; two names are the same object      *)
(* exactly when they are equal, except the objects made by object(), see   *)
(* SameObject.                                                             *)
(***************************************************************************)
EXTENDS Integers, Sequences, FiniteSets, TLC

\* ---------------------------------------------------------------- bounds
\* Steps of executed user code per turn (prints, bindings, input calls ...).
MaxOps == 2
\* Signals emitted by the worker and not yet delivered to the controller
\* beyond which the user's key events wait.
MaxPending == 1
\* Entries of Command History.
MaxHistory == 2
\* Downloader threads in flight.
MaxDownloads == 1
\* Tokens of the widget's document, from the text above the current line on.
MaxDoc == 5

\* ----------------------------------------------------------- vocabulary
None == "None"
\* getattr(builtins, '_', <default>) finds no attribute
Absent == "absent"
\* an instance made by object(): every call makes a new one
FreshObject == "object()"
Values == {"int5", "int7"}

\* repr() of the values of the model
Repr(v) == CASE v = "int5" -> "5"
             [] v = "int7" -> "7"
             [] v = FreshObject -> "<object object>"
             [] OTHER -> v

\* exception classes: Exception and SyntaxError derive from Exception,
\* KeyboardInterrupt and SystemExit only from BaseException
ExcClasses == {"Exception", "SyntaxError", "KeyboardInterrupt", "SystemExit"}
IsException(cls) == cls \in {"Exception", "SyntaxError"}

\* The lines the user can submit.  "E" stands for an arbitrary expression,
\* "S" for an arbitrary statement sequence, "?" for text that is neither;
\* "x=5", "x" and "g" (globals()['x']) are the fragments of those names.
GenericLines == { <<"E">>, <<"S">>, <<"?">> }
InputLines == { <<"E">>, <<"S">> }
NamedLines == { <<"x=5">>, <<"x">>, <<"g">> }
\* "ask" is the statement sequence
\*   print("out"); input("? "); print("more"); input("name: ")
AskLines == { <<"ask">> }
\* "read" is the statement
\*   if input("? "): pass
ReadLines == { <<"read">> }
BlankLines == { <<>>, <<" ">> }

\* The lines the user answers an input request with.
Replies == { <<>>, <<"E">> }

\* The document: the text above the current line is one token, the prompt
\* the widget drew last is the next one.
Transcript == "<transcript>"
\* TerminalWidget.prompt
CodePrompt == ">>> "
\* the prompt of a pending input request, and the yes/no question
RequestPrompt == "<input prompt>"
YesNoPrompt == "(y/n): "

\* The prompts executed code passes to input().
InputPrompt == <<"? ">>
NamePrompt == <<"name: ">>

\* QTextCursor.selectedText() gives U+2029 where the document has a line break
LineBreak == "<U+2029>"
\* str.isspace()
IsSpace(t) == t \in {" ", LineBreak}

\* faulty variant: a strip() that strips nothing
StripNothing(s) == s
\* str.strip(): drop the whitespace at both ends
RECURSIVE LStrip(_)
LStrip(s) == IF s /= <<>> /\ IsSpace(Head(s)) THEN LStrip(Tail(s)) ELSE s
RECURSIVE RStrip(_)
RStrip(s) == IF s /= <<>> /\ IsSpace(s[Len(s)]) THEN RStrip(SubSeq(s, 1, Len(s) - 1)) ELSE s
Strip(s) == RStrip(LStrip(s))

\* str.lower()
LowerToken(t) == CASE t = "Y" -> "y" [] t = "N" -> "n" [] t = "YES" -> "yes"
                   [] t = "NO" -> "no" [] OTHER -> t
Lower(s) == [i \in 1..Len(s) |-> LowerToken(s[i])]

\* compile(code, '<input>', 'eval') succeeds
CompilesAsEval(c) == c \in { <<"x">>, <<"g">>, <<"E">> }
\* compile(code, '<input>', 'exec') succeeds: every expression is a statement
CompilesAsExec(c) == CompilesAsEval(c) \/ c \in { <<"x=5">>, <<"S">>, <<"ask">>, <<"read">> }

\* self.input_response = None
NoResponse == <<"<None>">>
\* the outcome of an input() call that raised KeyboardInterrupt
RaisedInterrupt == <<"<KeyboardInterrupt>">>

\* dict[k] = v
Put(d, k, v) == [n \in DOMAIN d \cup {k} |-> IF n = k THEN v ELSE d[n]]

\* `a is b` for two results of getattr(builtins, '_', object()): a missing
\* attribute yields a new object each time, which is no other object
SameObject(a, b) == a /= Absent /\ b /= Absent /\ a = b

VARIABLES
  \* PythonExecutor fields
  code, globals_dict, locals_dict, input_response, input_event, interrupted,
  \* process-wide interpreter state
  sys_stdout, sys_stderr, builtins_input, builtins_underscore,
  sys_displayhook, sys_excepthook,
  \* the frame of PythonExecutor.run
  pc, old_stdout, old_stderr, old_input, stdout_capture, stderr_capture,
  result_value, exception_occurred,
  \* position of the executed code: compiled fragment, the prompt of the
  \* input call it is in, try block it runs in, user steps taken, value
  \* awaiting display, exception in flight, exit path
  compiled, prompt, phase, ops, result, exc, exit_mode,
  \* signals: queued for the controller thread / emitted by the current turn
  sigq, events,
  \* TerminalWidget fields
  waiting_for_input, pyco_download_pending, command_history, history_index,
  active_prompt,
  \* PycoDownloader threads started and not yet finished
  downloads,
  \* the local old_stdout of load_pyco_file while it executes, else "none"
  load_old_stdout,
  \* the widget's document from the text above the current line on, the
  \* position of the text cursor in it, and TerminalWidget.command_start_position
  doc, cursor, command_start_position,
  \* record of the current turn, for the properties
  turn

engineVars == <<code, globals_dict, locals_dict, input_response, input_event, interrupted>>
processVars == <<sys_stdout, sys_stderr, builtins_input, builtins_underscore,
                 sys_displayhook, sys_excepthook>>
savedVars == <<old_stdout, old_stderr, old_input>>
captureVars == <<stdout_capture, stderr_capture>>
frameVars == <<result_value, exception_occurred, compiled, prompt, phase, ops, result, exc, exit_mode>>
signalVars == <<sigq, events>>
editorVars == <<doc, cursor, command_start_position>>
widgetVars == <<waiting_for_input, pyco_download_pending, command_history, history_index,
                active_prompt, downloads, load_old_stdout, editorVars>>
vars == <<engineVars, processVars, pc, savedVars, captureVars, frameVars, signalVars,
          widgetVars, turn>>

\* PythonExecutor.__init__ / setup_python_environment: the seed of the globals
InitialGlobals == [n \in {"__name__", "sys", "builtins"} |->
                     CASE n = "__name__" -> "__main__"
                       [] n = "sys" -> "module sys"
                       [] n = "builtins" -> "module builtins"]
EmptyDict == [n \in {} |-> None]

NoTurn == [underscore0 |-> Absent, raised |-> FALSE, excepthook_calls |-> 0,
           evaluated |-> Absent, executed |-> 0, display_ret |-> Absent,
           display_assigned |-> Absent, excepthook_ret |-> Absent,
           engine_wrote |-> FALSE, input_returned |-> NoResponse,
           code_raised |-> "none", code_replaced |-> FALSE,
           hook_raised |-> FALSE, calls |-> <<>>, cancel_ignored |-> FALSE]

\* the engine and the widget built by setup_ui (line 1202)
Built ==
  /\ code = <<>>
  /\ locals_dict = EmptyDict
  /\ input_response = NoResponse
  /\ input_event = "none"
  /\ interrupted = FALSE
  /\ sys_stderr = "stderr" /\ builtins_input = "input"
  /\ builtins_underscore = Absent
  /\ sys_displayhook = "default" /\ sys_excepthook = "default"
  /\ pc = "idle"
  /\ old_stdout = "stdout" /\ old_stderr = "stderr" /\ old_input = "input"
  /\ stdout_capture = <<>> /\ stderr_capture = <<>>
  /\ result_value = None /\ exception_occurred = FALSE
  /\ compiled = <<>> /\ prompt = <<>> /\ phase = "none" /\ ops = 0 /\ result = None /\ exc = "none"
  /\ exit_mode = "normal"
  /\ sigq = <<>> /\ events = <<>>
  /\ waiting_for_input = FALSE
  /\ command_history = <<>>
  /\ history_index = -1
  /\ downloads = 0
  /\ turn = NoTurn
\* the engine and the widget after construction, but for what
\* check_pyco_file (lines 1477-1494) decides
Constructed ==
  /\ Built
  /\ sys_stdout = "stdout"
  /\ load_old_stdout = "none"
  /\ cursor = 2 /\ command_start_position = 2
\* the session at its first code prompt, nothing loaded
Init ==
  /\ Constructed
  /\ globals_dict = InitialGlobals
  /\ pyco_download_pending = FALSE
  /\ active_prompt = "code"
  /\ doc = <<Transcript, CodePrompt>>
\* lines 1477-1494: pyco.py is there and was loaded, or it is not and the
\* yes/no question is asked
InitEdit ==
  /\ Constructed
  /\ \E pyco_exists \in BOOLEAN :
       IF pyco_exists
         THEN /\ globals_dict = [n \in DOMAIN InitialGlobals \cup {"pyco"} |->
                                   IF n = "pyco" THEN "function pyco" ELSE InitialGlobals[n]]
              /\ pyco_download_pending = FALSE
              /\ active_prompt = "code"
              /\ doc = <<Transcript, CodePrompt>>
         ELSE /\ globals_dict = InitialGlobals
              /\ pyco_download_pending = TRUE
              /\ active_prompt = "yesno"
              /\ doc = <<Transcript, YesNoPrompt>>

\* ------------------------------------------------------------ signals
Finished(text, is_error) == [sig |-> "execution_finished", text |-> text, is_error |-> is_error]
OutputReady(text) == [sig |-> "output_ready", text |-> text, is_error |-> FALSE]
InputRequested(p) == [sig |-> "input_requested", text |-> p, is_error |-> FALSE]
\* signal.emit(...): the emission is recorded in events and the signal is
\* queued to the controller's thread (sigq keeps which slot it will call;
\* the slots only render the payload)
Emit(e) == sigq' = Append(sigq, e.sig) /\ events' = Append(events, e)

\* the turn's interrupt outcome (line 241)
InterruptText == <<"^C\nKeyboardInterrupt">>

\* ------------------------------------------- where a raised exception goes
\* raised in the body of the inner try (eval or the display hook): the
\* except clauses of lines 205, 223, 225 in their order, else it leaves run
InnerTryTarget(cls) ==
  CASE cls = "SyntaxError" -> "compile_exec"
    [] cls = "KeyboardInterrupt" -> "kbint"
    [] IsException(cls) -> "excepthook_inner"
    [] OTHER -> "escape"
\* raised by compile/exec of the statement path: the clauses of lines 210, 212
StmtTarget(cls) ==
  CASE cls = "KeyboardInterrupt" -> "kbint"
    [] IsException(cls) -> "excepthook_stmt"
    [] OTHER -> "escape"
\* raised inside a handler of the inner try: the clauses of lines 237, 243
OuterTarget(cls) ==
  CASE cls = "KeyboardInterrupt" -> "kbint"
    [] IsException(cls) -> "excepthook_outer"
    [] OTHER -> "escape"
\* where executed code's exception goes, by the block it runs in
UserTarget(ph, cls) == IF ph = "eval" THEN InnerTryTarget(cls) ELSE StmtTarget(cls)

\* the exception cls is raised and goes to target t
Goto(t, cls) ==
  /\ exc' = cls
  /\ IF t = "escape" THEN pc' = "finally" /\ exit_mode' = "escape"
                     ELSE pc' = t /\ exit_mode' = exit_mode

\* ------------------------------------------------------ PythonExecutor.run
\* lines 115-120: the empty fragment; lines 122-128, 166-177: the redirection
RunBegin ==
  /\ pc = "start"
  /\ interrupted' = FALSE
  /\ IF Strip(code) = <<>>
       THEN /\ sigq' = Append(sigq, "execution_finished")
            /\ events' = <<Finished(<<>>, FALSE)>>
            /\ pc' = "done"
            /\ turn' = [NoTurn EXCEPT !.underscore0 =
                          IF "_" \in DOMAIN globals_dict THEN globals_dict["_"] ELSE Absent]
            /\ UNCHANGED <<processVars, savedVars, captureVars, frameVars>>
       ELSE /\ old_stdout' = sys_stdout /\ old_stderr' = sys_stderr
            /\ old_input' = builtins_input
            /\ stdout_capture' = <<>> /\ stderr_capture' = <<>>
            /\ result_value' = None /\ exception_occurred' = FALSE
            /\ sys_stdout' = "stdout_capture" /\ sys_stderr' = "stderr_capture"
            /\ builtins_input' = "interactive_input"
            /\ compiled' = <<>> /\ prompt' = <<>> /\ phase' = "none" /\ ops' = 0 /\ result' = None
            /\ exc' = "none" /\ exit_mode' = "normal"
            /\ events' = <<>> /\ sigq' = sigq
            /\ pc' = "compile_eval"
            /\ turn' = [NoTurn EXCEPT !.underscore0 =
                          IF "_" \in DOMAIN globals_dict THEN globals_dict["_"] ELSE Absent]
            /\ UNCHANGED <<builtins_underscore, sys_displayhook, sys_excepthook>>
  /\ UNCHANGED <<code, globals_dict, locals_dict, input_response, input_event, widgetVars>>

\* line 181: compile(self.code, '<input>', 'eval'); its SyntaxError is caught
\* at line 205
CompileEval ==
  /\ pc = "compile_eval"
  /\ IF CompilesAsEval(code)
       THEN /\ compiled' = code /\ phase' = "eval" /\ pc' = "user" /\ prompt' = prompt
            /\ turn' = [turn EXCEPT !.executed = @ + 1]
            /\ exc' = exc
       ELSE /\ pc' = "compile_exec" /\ exc' = "SyntaxError"
            /\ UNCHANGED <<compiled, prompt, phase, turn>>
  /\ UNCHANGED <<engineVars, processVars, savedVars, captureVars, signalVars, widgetVars,
                 result_value, exception_occurred, ops, result, exit_mode>>

\* line 208: compile(self.code, '<input>', 'exec'), inside the handler of
\* line 205; its SyntaxError is an Exception to the clause of line 212
CompileExec ==
  /\ pc = "compile_exec"
  /\ IF CompilesAsExec(code)
       THEN /\ compiled' = code /\ phase' = "exec" /\ pc' = "user" /\ ops' = 0
            /\ prompt' = prompt
            /\ turn' = [turn EXCEPT !.executed = @ + 1]
            /\ UNCHANGED <<exc, exit_mode>>
       ELSE /\ Goto(StmtTarget("SyntaxError"), "SyntaxError")
            /\ turn' = [turn EXCEPT !.raised = TRUE]
            /\ UNCHANGED <<compiled, prompt, phase, ops>>
  /\ UNCHANGED <<engineVars, processVars, savedVars, captureVars, signalVars, widgetVars,
                 result_value, exception_occurred, result>>

\* ------------------------------------------------------- the executed code
\* fragments whose behaviour is arbitrary
Generic == { <<"E">>, <<"S">> }

\* faulty variant: top-level code that resolves names in the globals mapping alone
TopLevelReadGlobalsOnly(n) ==
  IF n \in DOMAIN globals_dict THEN globals_dict[n]
  ELSE IF n = "_" THEN builtins_underscore
  ELSE Absent
\* a name read by top-level code run as eval/exec(compiled, globals_dict,
\* locals_dict): the locals mapping, then the globals mapping, then builtins
TopLevelRead(n) ==
  IF n \in DOMAIN locals_dict THEN locals_dict[n]
  ELSE IF n \in DOMAIN globals_dict THEN globals_dict[n]
  ELSE IF n = "_" THEN builtins_underscore
  ELSE Absent
\* a name read through the globals mapping: globals()[n], the body of a
\* function defined in the session, TerminalWidget.get_completions
GlobalsRead(n) == IF n \in DOMAIN globals_dict THEN globals_dict[n] ELSE Absent
\* a name bound by top-level code: STORE_NAME writes the locals mapping
TopLevelBind(n, v) == locals_dict' = Put(locals_dict, n, v)

\* write to sys.stdout / sys.stderr: it reaches the turn's buffer when the
\* handle is the turn's buffer
WriteOut(toks) ==
  stdout_capture' = IF sys_stdout = "stdout_capture" THEN stdout_capture \o toks
                    ELSE stdout_capture
WriteErr(toks) ==
  stderr_capture' = IF sys_stderr = "stderr_capture" THEN stderr_capture \o toks
                    ELSE stderr_capture

\* eval/exec returns normally
ReturnFromCode(v) ==
  /\ result' = v
  /\ turn' = [turn EXCEPT !.evaluated = IF phase = "eval" THEN v ELSE @]
  /\ IF phase = "eval" /\ v /= None
       THEN pc' = "display" /\ exit_mode' = exit_mode
       ELSE pc' = "finally" /\ exit_mode' = "normal"
\* eval/exec raises cls
RaiseFromCode(cls) ==
  /\ Goto(UserTarget(phase, cls), cls)
  /\ turn' = [turn EXCEPT !.raised = TRUE, !.code_raised = cls]
  /\ result' = result

\* print(...)
UserPrint ==
  /\ pc = "user" /\ compiled \in Generic /\ ops < MaxOps
  /\ ops' = ops + 1
  /\ WriteOut(<<"out">>)
  /\ UNCHANGED <<engineVars, processVars, pc, savedVars, stderr_capture, signalVars,
                 widgetVars, turn, result_value, exception_occurred, compiled, prompt, phase,
                 result, exc, exit_mode>>

\* print(..., file=sys.stderr)
UserPrintErr ==
  /\ pc = "user" /\ compiled \in Generic /\ ops < MaxOps
  /\ ops' = ops + 1
  /\ WriteErr(<<"err">>)
  /\ UNCHANGED <<engineVars, processVars, pc, savedVars, stdout_capture, signalVars,
                 widgetVars, turn, result_value, exception_occurred, compiled, prompt, phase,
                 result, exc, exit_mode>>

\* sys.displayhook = f, sys.excepthook = f, del sys.displayhook ...
UserSetHook(which, h) ==
  /\ pc = "user" /\ compiled = <<"S">> /\ ops < MaxOps
  /\ ops' = ops + 1
  /\ IF which = "displayhook"
       THEN sys_displayhook' = h /\ sys_excepthook' = sys_excepthook
       ELSE sys_excepthook' = h /\ sys_displayhook' = sys_displayhook
  /\ UNCHANGED <<engineVars, sys_stdout, sys_stderr, builtins_input, builtins_underscore,
                 pc, savedVars, captureVars, signalVars, widgetVars, turn,
                 result_value, exception_occurred, compiled, prompt, phase, result, exc, exit_mode>>

\* input(p) is called: control enters interactive_input with prompt p
CallInput(p) ==
  /\ builtins_input = "interactive_input"
  /\ prompt' = p
  /\ pc' = "input_flush"
  /\ turn' = [turn EXCEPT !.calls = Append(@, [prompt |-> p, out |-> stdout_capture])]

\* input(p) in arbitrary code
UserCallInput(p) ==
  /\ pc = "user" /\ compiled \in Generic /\ ops < MaxOps
  /\ ops' = ops + 1
  /\ CallInput(p)
  /\ UNCHANGED <<engineVars, processVars, savedVars, captureVars, signalVars, widgetVars,
                 result_value, exception_occurred, compiled, phase, result, exc,
                 exit_mode>>

\* the fragment "ask"; ops is the position in it
\* its two print calls
AskPrint ==
  /\ pc = "user" /\ compiled = <<"ask">> /\ ops \in {0, 2}
  /\ ops' = ops + 1
  /\ WriteOut(IF ops = 0 THEN <<"out">> ELSE <<"more">>)
  /\ UNCHANGED <<engineVars, processVars, pc, savedVars, stderr_capture, signalVars,
                 widgetVars, turn, result_value, exception_occurred, compiled, prompt, phase,
                 result, exc, exit_mode>>
\* its two input calls
AskInput ==
  /\ pc = "user" /\ compiled = <<"ask">> /\ ops \in {1, 3}
  /\ ops' = ops + 1
  /\ CallInput(IF ops = 1 THEN InputPrompt ELSE NamePrompt)
  /\ UNCHANGED <<engineVars, processVars, savedVars, captureVars, signalVars, widgetVars,
                 result_value, exception_occurred, compiled, phase, result, exc,
                 exit_mode>>
\* its end
AskEnd ==
  /\ pc = "user" /\ compiled = <<"ask">> /\ ops = 4
  /\ ReturnFromCode(None)
  /\ UNCHANGED <<engineVars, processVars, savedVars, captureVars, signalVars, widgetVars,
                 result_value, exception_occurred, compiled, prompt, phase, ops, exc>>

\* the fragment "read": its input call, and its end
ReadInput ==
  /\ pc = "user" /\ compiled = <<"read">> /\ ops = 0
  /\ ops' = 1
  /\ CallInput(InputPrompt)
  /\ UNCHANGED <<engineVars, processVars, savedVars, captureVars, signalVars, widgetVars,
                 result_value, exception_occurred, compiled, phase, result, exc,
                 exit_mode>>
ReadEnd ==
  /\ pc = "user" /\ compiled = <<"read">> /\ ops = 1
  /\ ReturnFromCode(None)
  /\ UNCHANGED <<engineVars, processVars, savedVars, captureVars, signalVars, widgetVars,
                 result_value, exception_occurred, compiled, prompt, phase, ops, exc>>

\* the code raises an exception of class cls
UserRaise(cls) ==
  /\ pc = "user" /\ compiled \in Generic
  /\ RaiseFromCode(cls)
  /\ UNCHANGED <<engineVars, processVars, savedVars, captureVars, signalVars, widgetVars,
                 result_value, exception_occurred, compiled, prompt, phase, ops>>

\* the code ends: an expression with value v, a statement sequence with none
UserReturn(v) ==
  /\ pc = "user" /\ compiled \in Generic
  /\ phase = "exec" => v = None
  /\ ReturnFromCode(v)
  /\ UNCHANGED <<engineVars, processVars, savedVars, captureVars, signalVars, widgetVars,
                 result_value, exception_occurred, compiled, prompt, phase, ops, exc>>

\* the fragment `x = 5`
ExecAssign ==
  /\ pc = "user" /\ compiled = <<"x=5">>
  /\ TopLevelBind("x", "int5")
  /\ ReturnFromCode(None)
  /\ UNCHANGED <<code, globals_dict, input_response, input_event, interrupted,
                 processVars, savedVars, captureVars, signalVars, widgetVars,
                 result_value, exception_occurred, compiled, prompt, phase, ops, exc>>

\* the fragments `x` (a top-level name) and `g`, that is globals()['x']: the
\* value, or NameError / KeyError
EvalName ==
  /\ pc = "user" /\ compiled \in { <<"x">>, <<"g">> }
  /\ LET v == IF compiled = <<"x">> THEN TopLevelRead("x") ELSE GlobalsRead("x")
     IN IF v = Absent
          THEN RaiseFromCode("Exception")
          ELSE ReturnFromCode(IF phase = "eval" THEN v ELSE None) /\ exc' = exc
  /\ UNCHANGED <<engineVars, processVars, savedVars, captureVars, signalVars, widgetVars,
                 result_value, exception_occurred, compiled, prompt, phase, ops>>

\* ------------------------------------------------ run: the display hook
\* lines 192-201: did the hook change builtins._ ?  old and new are the two
\* getattr(builtins, '_', object()) results, ret the hook's return value
HookChangedUnderscore(old, new) == ~SameObject(new, old)
DisplaySync(old, new, ret, assigned) ==
  IF HookChangedUnderscore(old, new)
    THEN /\ globals_dict' = Put(globals_dict, "_", IF new = Absent THEN FreshObject ELSE new)
         /\ result_value' = None
         /\ turn' = [turn EXCEPT !.display_ret = ret, !.display_assigned = assigned,
                                 !.engine_wrote = TRUE]
    ELSE /\ globals_dict' = globals_dict
         /\ result_value' = IF ret /= None THEN ret ELSE result
         /\ turn' = [turn EXCEPT !.display_ret = ret, !.display_assigned = assigned]

\* lines 183-204 with result not None
\* sys.__displayhook__ stores the value in builtins._, prints its repr and
\* returns None; a hook of the session does what it likes
DisplayHookDefault ==
  /\ pc = "display" /\ sys_displayhook = "default"
  /\ builtins_underscore' = result
  /\ WriteOut(<<Repr(result), "\n">>)
  /\ DisplaySync(builtins_underscore, result, None, result)
  /\ pc' = "finally" /\ exit_mode' = "normal"
  /\ UNCHANGED <<code, locals_dict, input_response, input_event, interrupted,
                 sys_stdout, sys_stderr, builtins_input, sys_displayhook, sys_excepthook,
                 savedVars, stderr_capture, signalVars, widgetVars,
                 exception_occurred, compiled, prompt, phase, ops, result, exc>>

\* assign: the value the hook stores in builtins._ (Absent: it does not)
DisplayHookCustom(assign, ret) ==
  /\ pc = "display" /\ sys_displayhook = "custom"
  /\ builtins_underscore' = IF assign = Absent THEN builtins_underscore ELSE assign
  /\ DisplaySync(builtins_underscore,
                 IF assign = Absent THEN builtins_underscore ELSE assign, ret, assign)
  /\ pc' = "finally" /\ exit_mode' = "normal"
  /\ UNCHANGED <<code, locals_dict, input_response, input_event, interrupted,
                 sys_stdout, sys_stderr, builtins_input, sys_displayhook, sys_excepthook,
                 savedVars, captureVars, signalVars, widgetVars,
                 exception_occurred, compiled, prompt, phase, ops, result, exc>>

\* the hook of the session raises
DisplayHookRaises(cls) ==
  /\ pc = "display" /\ sys_displayhook = "custom"
  /\ Goto(InnerTryTarget(cls), cls)
  /\ turn' = [turn EXCEPT !.raised = TRUE, !.hook_raised = TRUE]
  /\ UNCHANGED <<engineVars, processVars, savedVars, captureVars, signalVars, widgetVars,
                 result_value, exception_occurred, compiled, prompt, phase, ops, result>>

\* lines 202-204: no callable sys.displayhook
DisplayNoHook ==
  /\ pc = "display" /\ sys_displayhook = "absent"
  /\ WriteOut(<<Repr(result), "\n">>)
  /\ result_value' = result
  /\ pc' = "finally" /\ exit_mode' = "normal"
  /\ UNCHANGED <<engineVars, processVars, savedVars, stderr_capture, signalVars, widgetVars,
                 turn, exception_occurred, compiled, prompt, phase, ops, result, exc>>

\* ---------------------------------------------- run: the exception hook
\* lines 217-220, 230-233, 248-251: the hook returned ret
HookReturned(ret) ==
  IF ret /= None
    THEN result_value' = ret /\ exception_occurred' = FALSE
    ELSE result_value' = result_value /\ exception_occurred' = TRUE

ExceptHookSites == {"excepthook_stmt", "excepthook_inner", "excepthook_outer"}

\* sys.__excepthook__ prints the traceback to sys.stderr and returns None
ExceptHookDefault ==
  /\ pc \in ExceptHookSites /\ sys_excepthook = "default"
  /\ WriteErr(<<"Traceback", exc, "\n">>)
  /\ HookReturned(None)
  /\ turn' = [turn EXCEPT !.excepthook_calls = @ + 1, !.excepthook_ret = None]
  /\ pc' = "finally" /\ exit_mode' = "normal"
  /\ UNCHANGED <<engineVars, processVars, savedVars, stdout_capture, signalVars, widgetVars,
                 compiled, prompt, phase, ops, result, exc>>

\* a hook of the session returns ret, having written to sys.stderr or not
ExceptHookCustom(ret, writes) ==
  /\ pc \in ExceptHookSites /\ sys_excepthook = "custom"
  /\ IF writes THEN WriteErr(<<"handled", exc, "\n">>) ELSE stderr_capture' = stderr_capture
  /\ HookReturned(ret)
  /\ turn' = [turn EXCEPT !.excepthook_calls = @ + 1, !.excepthook_ret = ret]
  /\ pc' = "finally" /\ exit_mode' = "normal"
  /\ UNCHANGED <<engineVars, processVars, savedVars, stdout_capture, signalVars, widgetVars,
                 compiled, prompt, phase, ops, result, exc>>

\* a hook of the session raises cls: out of the handler it was called in,
\* to the outer try (lines 237, 243) or, from the outer handler, out of run
ExceptHookRaises(cls) ==
  /\ pc \in ExceptHookSites /\ sys_excepthook = "custom"
  /\ exception_occurred' = TRUE
  /\ Goto(IF pc = "excepthook_outer" THEN "escape" ELSE OuterTarget(cls), cls)
  /\ turn' = [turn EXCEPT !.excepthook_calls = @ + 1, !.raised = TRUE,
                          !.hook_raised = TRUE]
  /\ UNCHANGED <<engineVars, processVars, savedVars, captureVars, signalVars, widgetVars,
                 result_value, compiled, prompt, phase, ops, result>>

\* lines 221-222, 234-235, 252-253: no callable sys.excepthook
ExceptNoHook ==
  /\ pc \in ExceptHookSites /\ sys_excepthook = "absent"
  /\ exception_occurred' = TRUE
  /\ WriteErr(IF pc = "excepthook_outer" THEN <<"Execution error: ", "msg", "\n">>
                                         ELSE <<exc, ": ", "msg", "\n">>)
  /\ pc' = "finally" /\ exit_mode' = "normal"
  /\ UNCHANGED <<engineVars, processVars, savedVars, stdout_capture, signalVars, widgetVars,
                 turn, result_value, compiled, prompt, phase, ops, result, exc>>

\* lines 237-242: the interrupt outcome, then return through finally
KeyboardInterruptHandler ==
  /\ pc = "kbint"
  /\ exception_occurred' = TRUE
  /\ Emit(Finished(InterruptText, TRUE))
  /\ pc' = "finally" /\ exit_mode' = "return"
  /\ UNCHANGED <<engineVars, processVars, savedVars, captureVars, widgetVars, turn,
                 result_value, compiled, prompt, phase, ops, result, exc>>

\* faulty variant: a finally clause that forgets builtins.input
RestoreStreamsOnly ==
  /\ sys_stdout' = old_stdout
  /\ sys_stderr' = old_stderr
  /\ builtins_input' = builtins_input
\* lines 254-259
RestoreRedirection ==
  /\ sys_stdout' = old_stdout
  /\ sys_stderr' = old_stderr
  /\ builtins_input' = old_input
\* faulty variant: the handler of line 237 without its return
AfterFinallyFallsThrough(mode) ==
  CASE mode = "escape" -> "crashed"
    [] OTHER -> "epilogue"
\* where run goes after the finally clause
AfterFinally(mode) ==
  CASE mode = "normal" -> "epilogue"
    [] mode = "return" -> "done"
    [] OTHER -> "crashed"
Finally ==
  /\ pc = "finally"
  /\ RestoreRedirection
  /\ pc' = AfterFinally(exit_mode)
  /\ UNCHANGED <<engineVars, builtins_underscore, sys_displayhook, sys_excepthook,
                 savedVars, captureVars, frameVars, signalVars, widgetVars, turn>>

\* faulty variant: the text without the captured standard-error
CombinedOutputDropsErr(out, err) == out
\* lines 261-270: the text of the terminal event
CombinedOutput(out, err) ==
  IF err /= <<>> THEN (IF out = <<>> THEN err ELSE out \o <<"\n">> \o err) ELSE out
\* faulty variant: line 276 without its condition
UpdatesUnderscoreAlways(occurred, value) == TRUE
\* line 276
UpdatesUnderscore(occurred, value) == ~occurred /\ value /= None
\* lines 261-282
Epilogue ==
  /\ pc = "epilogue"
  /\ IF UpdatesUnderscore(exception_occurred, result_value)
       THEN /\ globals_dict' = Put(globals_dict, "_", result_value)
            /\ builtins_underscore' = result_value
            /\ turn' = [turn EXCEPT !.engine_wrote = TRUE]
       ELSE UNCHANGED <<globals_dict, builtins_underscore, turn>>
  /\ Emit(Finished(CombinedOutput(stdout_capture, stderr_capture), stderr_capture /= <<>>))
  /\ pc' = "done"
  /\ UNCHANGED <<code, locals_dict, input_response, input_event, interrupted,
                 sys_stdout, sys_stderr, builtins_input, sys_displayhook, sys_excepthook,
                 savedVars, captureVars, frameVars, widgetVars>>

\* run has returned ("done") or an exception has left it ("crashed"): the
\* thread ends, its frame is gone and the next start() begins a new turn
ThreadFinished ==
  /\ pc \in {"done", "crashed"}
  /\ pc' = "idle"
  /\ old_stdout' = "stdout" /\ old_stderr' = "stderr" /\ old_input' = "input"
  /\ stdout_capture' = <<>> /\ stderr_capture' = <<>>
  /\ result_value' = None /\ exception_occurred' = FALSE
  /\ compiled' = <<>> /\ prompt' = <<>> /\ phase' = "none" /\ ops' = 0 /\ result' = None /\ exc' = "none"
  /\ exit_mode' = "normal"
  /\ events' = <<>> /\ sigq' = sigq
  /\ turn' = NoTurn
  /\ UNCHANGED <<engineVars, processVars, widgetVars>>

\* --------------------------------------------- run.interactive_input
\* faulty variant: the request goes out ahead of the captured output
InputFlushKeepsOutput ==
  /\ pc = "input_flush"
  /\ pc' = "input_request"
  /\ UNCHANGED <<engineVars, processVars, savedVars, captureVars, frameVars, signalVars,
                 widgetVars, turn>>
\* lines 131-145: the output captured so far goes out first
InputFlush ==
  /\ pc = "input_flush"
  /\ IF stdout_capture /= <<>>
       THEN stdout_capture' = <<>> /\ Emit(OutputReady(stdout_capture))
       ELSE UNCHANGED <<stdout_capture, signalVars>>
  /\ pc' = "input_request"
  /\ UNCHANGED <<engineVars, processVars, savedVars, stderr_capture, frameVars, widgetVars,
                 turn>>

\* lines 147-153: a new gate, then the request
InputRequest ==
  /\ pc = "input_request"
  /\ input_event' = "clear"
  /\ input_response' = NoResponse
  /\ Emit(InputRequested(prompt))
  /\ pc' = "input_wait"
  /\ UNCHANGED <<code, globals_dict, locals_dict, interrupted, processVars, savedVars,
                 captureVars, frameVars, widgetVars, turn>>

\* line 163: self.input_response or ""
ResponseOrEmpty(r) == IF r = NoResponse THEN <<>> ELSE r

\* lines 155-164, not interrupted: input() returns the response
InputReturn ==
  /\ pc = "input_wait" /\ input_event = "set"
  /\ ~interrupted
  /\ pc' = "user" /\ prompt' = <<>>
  /\ turn' = [turn EXCEPT !.input_returned = ResponseOrEmpty(input_response)]
  /\ UNCHANGED <<engineVars, processVars, savedVars, captureVars, signalVars, widgetVars,
                 result_value, exception_occurred, compiled, phase, ops, result, exc,
                 exit_mode>>

\* lines 158-160: input() raises KeyboardInterrupt, which the calling code
\* catches (and goes on) or not; the fragment "ask" does not catch it
InputInterrupted(caught) ==
  /\ pc = "input_wait" /\ input_event = "set"
  /\ interrupted
  /\ caught => compiled \in Generic
  /\ prompt' = <<>>
  /\ IF caught
       THEN /\ pc' = "user" /\ UNCHANGED <<exc, exit_mode, result>>
            /\ turn' = [turn EXCEPT !.input_returned = RaisedInterrupt]
       ELSE /\ Goto(UserTarget(phase, "KeyboardInterrupt"), "KeyboardInterrupt")
            /\ turn' = [turn EXCEPT !.raised = TRUE, !.code_raised = "KeyboardInterrupt",
                                    !.input_returned = RaisedInterrupt]
            /\ result' = result
  /\ UNCHANGED <<engineVars, processVars, savedVars, captureVars, signalVars, widgetVars,
                 result_value, exception_occurred, compiled, phase, ops>>

\* ------------------------------------------------------- PythonExecutor
\* faulty variant: the response is stored and the gate is left closed
ProvideInputGateClosed(user_input) ==
  /\ input_response' = user_input
  /\ input_event' = input_event
  /\ interrupted' = interrupted
\* lines 101-105
provide_input(user_input) ==
  /\ input_response' = user_input
  /\ input_event' = IF input_event /= "none" THEN "set" ELSE input_event
  /\ interrupted' = interrupted
\* lines 107-111
interrupt_execution ==
  /\ interrupted' = TRUE
  /\ input_event' = IF input_event /= "none" THEN "set" ELSE input_event
  /\ input_response' = input_response
\* QThread.isRunning()
IsRunning == pc /= "idle"
\* lines 98-99 and QThread.start(), which does nothing on a running thread
StartTurn(command) ==
  /\ code' = command
  /\ pc' = IF IsRunning THEN pc ELSE "start"
  /\ turn' = IF pc \in {"idle", "start"} THEN turn ELSE [turn EXCEPT !.code_replaced = TRUE]

\* --------------------------------------------------------- TerminalWidget
\* lines 632-644
insert_prompt == active_prompt' = "code"

\* the user's keys are typed, and fragments are handed to the engine, while at
\* most MaxPending signals await delivery
KeysAccepted == Len(sigq) <= MaxPending

\* lines 931-935: the line goes to Command History
LastEntryIs(command) ==
  IF command_history = <<>> THEN FALSE
  ELSE command_history[Len(command_history)] = command
RecordHistory(command) ==
  /\ command_history' = IF ~LastEntryIs(command)
                          THEN Append(command_history, command) ELSE command_history
  /\ history_index' = Len(command_history')

\* lines 1496-1506: a downloader thread is started
download_pyco == downloads' = downloads + 1

\* lines 893-941, Enter with `command` being get_current_command(): what it
\* does to the engine and to the widget's fields
ReturnKey(command) ==
  /\ KeysAccepted
  /\ IF waiting_for_input
       THEN /\ provide_input(command)
            /\ waiting_for_input' = FALSE
            /\ UNCHANGED <<code, pc, pyco_download_pending, command_history, history_index,
                           active_prompt, downloads, turn>>
       ELSE IF pyco_download_pending
         THEN /\ IF Lower(Strip(command)) \in { <<"y">>, <<"yes">> }
                   THEN /\ downloads < MaxDownloads
                        /\ download_pyco
                        /\ UNCHANGED <<pyco_download_pending, active_prompt>>
                   ELSE IF Lower(Strip(command)) \in { <<"n">>, <<"no">> }
                     THEN /\ pyco_download_pending' = FALSE
                          /\ insert_prompt
                          /\ downloads' = downloads
                     ELSE UNCHANGED <<pyco_download_pending, active_prompt, downloads>>
              /\ UNCHANGED <<code, pc, input_response, input_event, interrupted,
                             waiting_for_input, command_history, history_index, turn>>
       ELSE IF Strip(command) /= <<>>
         THEN /\ IF LastEntryIs(command) THEN TRUE ELSE Len(command_history) < MaxHistory
              /\ RecordHistory(command)
              /\ StartTurn(command)
              /\ UNCHANGED <<input_response, input_event, interrupted, waiting_for_input,
                             pyco_download_pending, active_prompt, downloads>>
         ELSE /\ insert_prompt
              /\ UNCHANGED <<code, pc, input_response, input_event, interrupted,
                             waiting_for_input, pyco_download_pending, command_history,
                             history_index, downloads, turn>>
  /\ UNCHANGED <<globals_dict, locals_dict, processVars, savedVars, captureVars, frameVars,
                 signalVars, load_old_stdout>>
\* Enter with a whole line typed at the prompt; a request is answered with
\* one of Replies
handle_return(command) ==
  /\ waiting_for_input => command \in Replies
  /\ ReturnKey(command)
  /\ UNCHANGED editorVars

\* faulty variant: Ctrl+C interrupts the executor whether or not the widget
\* is waiting for input
KeyboardInterruptAlways ==
  /\ KeysAccepted
  /\ waiting_for_input' = FALSE
  /\ interrupt_execution
  /\ active_prompt' = active_prompt
  /\ UNCHANGED <<code, globals_dict, locals_dict, processVars, pc, savedVars, captureVars,
                 frameVars, signalVars, pyco_download_pending, command_history,
                 history_index, downloads, load_old_stdout>>
\* lines 972-986, Ctrl+C with no selection
KeyboardInterruptKey ==
  /\ KeysAccepted
  /\ IF waiting_for_input
       THEN /\ waiting_for_input' = FALSE
            /\ interrupt_execution
            /\ active_prompt' = active_prompt
       ELSE /\ insert_prompt
            /\ UNCHANGED <<input_response, input_event, interrupted, waiting_for_input>>
  /\ UNCHANGED <<code, globals_dict, locals_dict, processVars, pc, savedVars, captureVars,
                 frameVars, signalVars, pyco_download_pending, command_history,
                 history_index, downloads, load_old_stdout>>
handle_ctrl_c == KeyboardInterruptKey /\ UNCHANGED <<turn, editorVars>>

\* run is between its first and its last statement
TurnRunning == pc \notin {"idle", "start", "done", "crashed"}
\* the same key, with the record of a Ctrl+C that arrived while the running
\* turn was not waiting in input()
handle_ctrl_c_recorded ==
  /\ KeyboardInterruptKey
  /\ UNCHANGED editorVars
  /\ turn' = IF TurnRunning /\ pc /= "input_wait"
               THEN [turn EXCEPT !.cancel_ignored = TRUE] ELSE turn

\* lines 1141-1162, delivery of execution_finished: the widget's fields
ExecutionFinishedSlot ==
  /\ sigq /= <<>> /\ Head(sigq) = "execution_finished"
  /\ sigq' = Tail(sigq)
  /\ insert_prompt
  /\ UNCHANGED <<engineVars, processVars, pc, savedVars, captureVars, frameVars, events,
                 waiting_for_input, pyco_download_pending, command_history, history_index,
                 downloads, load_old_stdout, turn>>
on_execution_finished == ExecutionFinishedSlot /\ UNCHANGED editorVars

\* lines 1164-1179, delivery of input_requested: the widget's fields
InputRequestedSlot ==
  /\ sigq /= <<>> /\ Head(sigq) = "input_requested"
  /\ sigq' = Tail(sigq)
  /\ IF waiting_for_input
       THEN UNCHANGED <<waiting_for_input, active_prompt>>
       ELSE waiting_for_input' = TRUE /\ active_prompt' = "input"
  /\ UNCHANGED <<engineVars, processVars, pc, savedVars, captureVars, frameVars, events,
                 pyco_download_pending, command_history, history_index, downloads,
                 load_old_stdout, turn>>
on_input_requested == InputRequestedSlot /\ UNCHANGED editorVars

\* lines 646-662, delivery of output_ready: the widget's fields
OutputReadySlot ==
  /\ sigq /= <<>> /\ Head(sigq) = "output_ready"
  /\ sigq' = Tail(sigq)
  /\ UNCHANGED <<engineVars, processVars, pc, savedVars, captureVars, frameVars, events,
                 waiting_for_input, pyco_download_pending, command_history, history_index,
                 active_prompt, downloads, load_old_stdout, turn>>
append_output_only == OutputReadySlot /\ UNCHANGED editorVars

\* the engine used without the widget: set_code(fragment); start()
DirectRun(fragment) ==
  /\ pc = "idle" /\ Len(sigq) <= MaxPending
  /\ StartTurn(fragment)
  /\ UNCHANGED <<globals_dict, locals_dict, input_response, input_event, interrupted,
                 processVars, savedVars, captureVars, frameVars, signalVars, widgetVars>>

\* the engine's two resolving calls made by a client at any time
DirectProvide(user_input) ==
  /\ provide_input(user_input)
  /\ UNCHANGED <<code, globals_dict, locals_dict, processVars, pc, savedVars, captureVars,
                 frameVars, signalVars, widgetVars, turn>>
DirectInterrupt ==
  /\ interrupt_execution
  /\ UNCHANGED <<code, globals_dict, locals_dict, processVars, pc, savedVars, captureVars,
                 frameVars, signalVars, widgetVars, turn>>

\* ----------------------------------------------------- PythonREPLTerminal
\* the controller's thread is not inside load_pyco_file
MainThreadFree == load_old_stdout = "none"

\* line 1540: the menu entry "Update pyco.py" (Ctrl+U) calls download_pyco,
\* whether or not a turn runs
update_pyco ==
  /\ MainThreadFree /\ KeysAccepted
  /\ downloads < MaxDownloads
  /\ download_pyco
  /\ UNCHANGED <<engineVars, processVars, pc, savedVars, captureVars, frameVars, signalVars,
                 waiting_for_input, pyco_download_pending, command_history, history_index,
                 active_prompt, load_old_stdout, editorVars, turn>>

\* lines 1509-1515 and 1456-1461: the download succeeded; load_pyco_file
\* saves sys.stdout and installs its own capture
LoadBegin ==
  /\ MainThreadFree /\ downloads > 0
  /\ downloads' = downloads - 1
  /\ load_old_stdout' = sys_stdout
  /\ sys_stdout' = "pyco_capture"
  /\ UNCHANGED <<engineVars, sys_stderr, builtins_input, builtins_underscore,
                 sys_displayhook, sys_excepthook, pc, savedVars, captureVars, frameVars,
                 signalVars, waiting_for_input, pyco_download_pending, command_history,
                 history_index, active_prompt, editorVars, turn>>

\* lines 1462-1472 and 1523-1524: pyco.py is executed in the engine's
\* globals, sys.stdout is put back, and on_download_finished ends
LoadEnd ==
  /\ ~MainThreadFree
  /\ globals_dict' = Put(globals_dict, "pyco", "function pyco")
  /\ sys_stdout' = load_old_stdout
  /\ load_old_stdout' = "none"
  /\ pyco_download_pending' = FALSE
  /\ insert_prompt
  /\ UNCHANGED <<code, locals_dict, input_response, input_event, interrupted, sys_stderr,
                 builtins_input, builtins_underscore, sys_displayhook, sys_excepthook, pc,
                 savedVars, captureVars, frameVars, signalVars, waiting_for_input,
                 command_history, history_index, downloads, turn>>

\* lines 1509-1524, success false: the message is shown, nothing is loaded
DownloadFailed ==
  /\ MainThreadFree /\ downloads > 0
  /\ downloads' = downloads - 1
  /\ pyco_download_pending' = FALSE
  /\ insert_prompt
  /\ UNCHANGED <<engineVars, processVars, pc, savedVars, captureVars, frameVars, signalVars,
                 waiting_for_input, command_history, history_index, load_old_stdout, turn>>

on_download_finished == (LoadBegin \/ LoadEnd \/ DownloadFailed) /\ UNCHANGED editorVars

\* Enter, with no handler of the controller's thread under way and no
\* progress dialog shown, and the delivery of execution_finished
SubmitLine(command) == MainThreadFree /\ downloads = 0 /\ handle_return(command)
DeliverFinished == MainThreadFree /\ on_execution_finished

\* ------------------------------------------- TerminalWidget: the document
\* the fields of the widget and of the main window other than the document
fieldVars == <<waiting_for_input, pyco_download_pending, command_history, history_index,
               active_prompt, downloads, load_old_stdout>>
\* the engine, its worker and the record of its turn
workerVars == <<engineVars, processVars, pc, savedVars, captureVars, frameVars, signalVars,
                turn>>

\* QProgressDialog of download_pyco (lines 1498-1501) is window-modal: the
\* widget gets no key while it is shown
DialogOpen == downloads > 0
\* a key or a click reaches the widget
KeyDelivered == MainThreadFree /\ ~DialogOpen

\* QTextCursor.setPosition(command_start_position): a position beyond the
\* end of the document is refused and the cursor stays where it was
CommandStart ==
  IF command_start_position <= Len(doc) THEN command_start_position ELSE cursor
\* lines 676-681
get_current_command == SubSeq(doc, CommandStart + 1, Len(doc))
\* line 748: cursor.position() - self.command_start_position
CursorPos == cursor - command_start_position

\* lines 683-689: the text from the command start on is replaced; the
\* widget's cursor, if at or behind the command start, ends behind the text
set_current_command(command) ==
  /\ doc' = SubSeq(doc, 1, CommandStart) \o command
  /\ cursor' = IF cursor >= CommandStart THEN CommandStart + Len(command) ELSE cursor
  /\ command_start_position' = command_start_position

\* the document after text was appended and a prompt p drawn at its end, with
\* command_start_position and the cursor behind it; the text above the new
\* current line counts as one token
PromptDrawn(p) ==
  /\ doc' = <<Transcript, p>>
  /\ command_start_position' = 2
  /\ cursor' = 2
\* line 813: prevent_editing for a key with (ctrl) or without the Control modifier
PreventEditing(ctrl) == cursor < command_start_position /\ ~ctrl

\* lines 833-836
KeyHome ==
  /\ KeyDelivered
  /\ cursor' = CommandStart
  /\ UNCHANGED <<workerVars, fieldVars, doc, command_start_position>>
\* lines 837-840
KeyEnd ==
  /\ KeyDelivered
  /\ cursor' = Len(doc)
  /\ UNCHANGED <<workerVars, fieldVars, doc, command_start_position>>
\* lines 841-848: QTextEdit deletes the character before the cursor
KeyBackspace ==
  /\ KeyDelivered
  /\ IF cursor <= command_start_position
       THEN UNCHANGED <<doc, cursor>>
       ELSE /\ doc' = SubSeq(doc, 1, cursor - 1) \o SubSeq(doc, cursor + 1, Len(doc))
            /\ cursor' = cursor - 1
  /\ UNCHANGED <<workerVars, fieldVars, command_start_position>>
\* lines 849-856
KeyLeft ==
  /\ KeyDelivered
  /\ cursor' = IF cursor <= command_start_position THEN cursor ELSE cursor - 1
  /\ UNCHANGED <<workerVars, fieldVars, doc, command_start_position>>
\* lines 876-879, Ctrl+K: the text from the cursor to the end is removed
KeyCtrlK ==
  /\ KeyDelivered
  /\ doc' = SubSeq(doc, 1, cursor)
  /\ UNCHANGED <<workerVars, fieldVars, cursor, command_start_position>>
\* lines 885-891: any other key goes to QTextEdit unless editing is
\* prevented; a character key inserts its character at the cursor
InsertAtCursor(t) ==
  /\ doc' = SubSeq(doc, 1, cursor) \o <<t>> \o SubSeq(doc, cursor + 1, Len(doc))
  /\ cursor' = cursor + 1
  /\ command_start_position' = command_start_position
KeyChar(t) ==
  /\ KeyDelivered
  /\ Len(doc) < MaxDoc
  /\ IF PreventEditing(FALSE) THEN UNCHANGED editorVars ELSE InsertAtCursor(t)
  /\ UNCHANGED <<workerVars, fieldVars>>

\* ------------------------------------------------ TerminalWidget: completion
\* Names as the user types them: a first key and the rest.
Spell(name) ==
  CASE name = "sys" -> <<"s", "ys">>
    [] name = "sum" -> <<"s", "um">>
    [] name = "str" -> <<"s", "tr">>
    [] name = "next" -> <<"n", "ext">>
    [] name = "pyco" -> <<"p", "yco">>
    [] OTHER -> <<name>>
\* dir(builtins), the names without a leading underscore that begin with one
\* of the keys typed here: `next` is the only one in n, `str` and `sum`
\* stand for the many in s
BuiltinNames == {"next", "str", "sum"}
\* name.startswith(word)
StartsWith(name, word) ==
  /\ Len(word) <= Len(Spell(name))
  /\ SubSeq(Spell(name), 1, Len(word)) = word
\* name.startswith('_')
IsPrivate(name) == name \in {"_", "__name__", "__builtins__"}
\* sorted(list(set(...))): the names in lexical order, each once
LexicalOrder == <<"builtins", "next", "pyco", "str", "sum", "sys", "x", "y">>
Sorted(names) == SelectSeq(LexicalOrder, LAMBDA n : n \in names)
\* lines 85-96: initial_globals
initial_globals == DOMAIN InitialGlobals \cup BuiltinNames

\* text.split(): the words of a text
RECURSIVE LastWordOf(_)
LastWordOf(text) ==
  IF text = <<>> \/ IsSpace(text[Len(text)]) THEN <<>>
  ELSE Append(LastWordOf(SubSeq(text, 1, Len(text) - 1)), text[Len(text)])
\* words[-1] of text.split(), <<>> if there is no word
LastWord(text) == LastWordOf(RStrip(text))

\* the member separator, and a word that has one (line 701)
Dot == "."
HasDot(word) == \E i \in 1..Len(word) : word[i] = Dot
\* last_word.split('.'): the position of the last separator
LastDotAt(word) ==
  CHOOSE i \in 1..Len(word) : word[i] = Dot /\ \A j \in (i + 1)..Len(word) : word[j] /= Dot
\* lines 704-705: '.'.join(parts[:-1]) and parts[-1]
ObjName(word) == SubSeq(word, 1, LastDotAt(word) - 1)
AttrPrefix(word) == SubSeq(word, LastDotAt(word) + 1, Len(word))
\* an expression that binds a name when it is evaluated: (y:=5)
Walrus == "(y:=5)"
\* the outcome of an eval that raised
EvalRaised == "<raised>"
\* line 709: eval(obj_name, globals_dict) gives the value of the assignment
\* expression or of a name bound in the engine's globals, and raises for a
\* name missing there and for text that is no expression
EvalValue(obj_name) ==
  IF obj_name = <<Walrus>> THEN "int5"
  ELSE IF \E n \in DOMAIN globals_dict : Spell(n) = obj_name
    THEN globals_dict[CHOOSE n \in DOMAIN globals_dict : Spell(n) = obj_name]
    ELSE EvalRaised
\* line 709: the engine's globals after the eval; an assignment expression
\* evaluated with one mapping binds its name there
GlobalsAfterEval(obj_name) ==
  IF obj_name = <<Walrus>> THEN Put(globals_dict, "y", "int5") ELSE globals_dict
\* dir(obj): `imag` and `real` stand for the attributes of an int, the two
\* special names for those of every other object; each as it is typed
Dir(value) ==
  IF value = "int5" THEN << <<"i", "mag">>, <<"r", "eal">> >>
  ELSE << <<"__class__">>, <<"__doc__">> >>
\* attr.startswith(attr_prefix)
AttrStartsWith(attr, prefix) ==
  Len(prefix) <= Len(attr) /\ SubSeq(attr, 1, Len(prefix)) = prefix
\* lines 702-715: the candidates for a word with a separator, each the text
\* obj_name, the separator and an attribute; none if eval or dir raised
member_completions(word) ==
  IF EvalValue(ObjName(word)) = EvalRaised THEN <<>>
  ELSE LET attrs == SelectSeq(Dir(EvalValue(ObjName(word))),
                              LAMBDA a : AttrStartsWith(a, AttrPrefix(word)))
       IN [i \in 1..Len(attrs) |-> ObjName(word) \o <<Dot>> \o attrs[i]]

\* lines 733-742
get_all_completions ==
  Sorted({ n \in DOMAIN globals_dict : ~IsPrivate(n) /\ n \notin initial_globals })
\* lines 691-731
get_completions(text, cursor_pos) ==
  LET word == LastWord(SubSeq(text, 1, cursor_pos))
  IN IF word = <<>> THEN get_all_completions
     ELSE IF HasDot(word) THEN member_completions(word)
     ELSE Sorted({ n \in DOMAIN globals_dict \cup BuiltinNames :
                     StartsWith(n, word) /\ ~IsPrivate(n) })
\* line 771: completion[len(last_word):]
MissingSuffix(name, word) == SubSeq(Spell(name), Len(word) + 1, Len(Spell(name)))
\* cursor.insertText(text) at the widget's cursor
InsertText(text) ==
  /\ doc' = SubSeq(doc, 1, cursor) \o text \o SubSeq(doc, cursor + 1, Len(doc))
  /\ cursor' = cursor + Len(text)
  /\ command_start_position' = command_start_position

\* lines 746-750: the candidates of a Tab pressed now, and the word before
\* the cursor (lines 757-759), <<>> if there is none
TabCompletions == get_completions(get_current_command, CursorPos)
TabWord == LastWord(SubSeq(get_current_command, 1, CursorPos))
\* lines 752-776: the text Tab inserts at the cursor
TabInsertText ==
  IF Len(TabCompletions) = 1 /\ TabWord /= <<>>
    THEN (IF HasDot(TabWord)
            THEN SubSeq(AttrPrefix(TabCompletions[1]), Len(AttrPrefix(TabWord)) + 1,
                        Len(AttrPrefix(TabCompletions[1])))
            ELSE MissingSuffix(TabCompletions[1], TabWord))
    ELSE <<>>
\* line 709: the engine's globals after the Tab key was served
TabGlobals ==
  IF TabWord /= <<>> /\ HasDot(TabWord) THEN GlobalsAfterEval(ObjName(TabWord))
  ELSE globals_dict
\* lines 777-799: Tab shows the candidates and draws the prompt again
TabListing == Len(TabCompletions) > 1
\* lines 744-799
handle_tab_completion ==
  IF TabListing
    THEN /\ doc' = <<Transcript, CodePrompt>> \o get_current_command
         /\ command_start_position' = 2
         /\ cursor' = 2 + Len(get_current_command)
    ELSE InsertText(TabInsertText)

\* faulty variant: recall without the lower bound, the cursor leaves History
\* below its oldest entry
NavigateHistoryUnbounded(direction) ==
  LET new_index == history_index + direction
  IN IF command_history = <<>> THEN UNCHANGED <<history_index, editorVars>>
     ELSE IF 0 <= new_index /\ new_index < Len(command_history)
       THEN /\ history_index' = new_index
            /\ set_current_command(command_history[new_index + 1])
       ELSE /\ history_index' = IF new_index < 0 THEN new_index ELSE Len(command_history)
            /\ set_current_command(<<>>)
\* lines 1181-1193
navigate_history(direction) ==
  LET new_index == history_index + direction
  IN IF command_history = <<>> THEN UNCHANGED <<history_index, editorVars>>
     ELSE IF 0 <= new_index /\ new_index < Len(command_history)
       THEN /\ history_index' = new_index
            /\ set_current_command(command_history[new_index + 1])
       ELSE IF new_index >= Len(command_history)
         THEN /\ history_index' = Len(command_history)
              /\ set_current_command(<<>>)
         ELSE UNCHANGED <<history_index, editorVars>>

\* lines 821-824 and 885-891, Tab: completion, or a tab character while an
\* input request is pending
KeyTab ==
  /\ KeyDelivered
  /\ IF PreventEditing(FALSE) THEN UNCHANGED <<editorVars, active_prompt>>
     ELSE IF waiting_for_input
       THEN Len(doc) < MaxDoc /\ InsertAtCursor("<tab>") /\ active_prompt' = active_prompt
       ELSE /\ handle_tab_completion
            /\ Len(doc') <= MaxDoc
            /\ active_prompt' = IF TabListing THEN "code" ELSE active_prompt
  /\ globals_dict' = IF PreventEditing(FALSE) \/ waiting_for_input THEN globals_dict
                     ELSE TabGlobals
  /\ UNCHANGED <<code, locals_dict, input_response, input_event, interrupted, processVars,
                 pc, savedVars, captureVars, frameVars, signalVars, turn,
                 waiting_for_input, pyco_download_pending, command_history,
                 history_index, downloads, load_old_stdout>>

\* lines 825-832 and 885-891, Up and Down: recall, or QTextEdit's cursor
\* movement to the line above or below while an input request is pending
KeyUp ==
  /\ KeyDelivered
  /\ IF PreventEditing(FALSE) THEN UNCHANGED <<history_index, editorVars>>
     ELSE IF waiting_for_input
       THEN /\ cursor' = IF doc /= <<>> /\ doc[1] = Transcript THEN 0 ELSE cursor
            /\ UNCHANGED <<history_index, doc, command_start_position>>
       ELSE navigate_history(-1)
  /\ UNCHANGED <<workerVars, waiting_for_input, pyco_download_pending, command_history,
                 active_prompt, downloads, load_old_stdout>>
KeyDown ==
  /\ KeyDelivered
  /\ IF PreventEditing(FALSE) \/ waiting_for_input
       THEN UNCHANGED <<history_index, editorVars>>
       ELSE navigate_history(1)
  /\ UNCHANGED <<workerVars, waiting_for_input, pyco_download_pending, command_history,
                 active_prompt, downloads, load_old_stdout>>

\* lines 897-929 and 940-941: what Enter does to the document
ReturnShown(command) ==
  IF ~waiting_for_input /\ pyco_download_pending
       /\ Lower(Strip(command)) \notin { <<"y">>, <<"yes">> }
    THEN PromptDrawn(IF Lower(Strip(command)) \in { <<"n">>, <<"no">> }
                       THEN CodePrompt ELSE YesNoPrompt)
    ELSE IF ~waiting_for_input /\ ~pyco_download_pending /\ Strip(command) = <<>>
      THEN PromptDrawn(CodePrompt)
      ELSE /\ doc' = Append(doc, LineBreak)
           /\ cursor' = Len(doc) + 1
           /\ command_start_position' = command_start_position

\* the lines Enter is pressed on at the code prompt: those whose compilation
\* is modelled (a line break inside a line is an invalid character)
Submittable(command) ==
  \/ Strip(command) = <<>>
  \/ command \in { <<"x=5">>, <<"read">> }
  \/ \E i \in 1..Len(command) : command[i] = LineBreak

\* lines 817-820 and 893-941
KeyReturn ==
  /\ KeyDelivered
  /\ Len(doc) < MaxDoc
  /\ IF PreventEditing(FALSE) THEN UNCHANGED vars
     ELSE /\ (~waiting_for_input /\ ~pyco_download_pending) => Submittable(get_current_command)
          /\ ReturnKey(get_current_command)
          /\ ReturnShown(get_current_command)

\* lines 857-859 and 972-986, Ctrl+C with no selection
KeyCtrlC ==
  /\ KeyDelivered
  /\ KeyboardInterruptKey
  /\ IF waiting_for_input THEN UNCHANGED editorVars ELSE PromptDrawn(CodePrompt)
  /\ turn' = turn

\* lines 865-867, Ctrl+L: the document is cleared and the code prompt drawn
KeyCtrlL ==
  /\ KeyDelivered
  /\ insert_prompt
  /\ PromptDrawn(CodePrompt)
  /\ UNCHANGED <<workerVars, waiting_for_input, pyco_download_pending, command_history,
                 history_index, downloads, load_old_stdout>>

\* the slots, with what they show
on_execution_finished_shown ==
  /\ MainThreadFree
  /\ ExecutionFinishedSlot
  /\ PromptDrawn(CodePrompt)
on_input_requested_shown ==
  /\ MainThreadFree
  /\ InputRequestedSlot
  /\ IF waiting_for_input THEN UNCHANGED editorVars ELSE PromptDrawn(RequestPrompt)
on_download_finished_shown ==
  \/ LoadBegin
  \/ LoadEnd /\ PromptDrawn(CodePrompt)
  \/ DownloadFailed /\ PromptDrawn(CodePrompt)

\* line 1504: Cancel in the progress dialog terminates the downloader, which
\* then emits nothing
CancelDownload ==
  /\ MainThreadFree /\ downloads > 0
  /\ downloads' = downloads - 1
  /\ UNCHANGED <<workerVars, waiting_for_input, pyco_download_pending, command_history,
                 history_index, active_prompt, load_old_stdout, editorVars>>

\* ------------------------------------------- the loader, script by steps
\* the two system messages of a load that failed (lines 1473 and 1517)
ErrorLoading == "Error loading pyco.py: "
CouldNotLoad == "Error: Could not load pyco.py after download"
\* what pyco.py may raise: a failure in Exception, or one outside of it
ScriptFailures == {"Exception", "SystemExit"}
\* the main thread is inside load_pyco_file, between lines 1460 and 1472
InLoader == load_old_stdout \notin {"none", "exited"}
\* load_pyco_file was called by check_pyco_file from the constructor: no
\* prompt has been drawn yet
AtStartup == active_prompt = "none"

\* line 1204, pyco.py is there, up to line 1460: the constructor is inside
\* load_pyco_file with the script's capture installed; or pyco.py is not
\* there and the yes/no question is asked (lines 1486-1494)
InitStartup ==
  /\ Built
  /\ globals_dict = InitialGlobals
  /\ \E pyco_exists \in BOOLEAN :
       IF pyco_exists
         THEN /\ sys_stdout = "pyco_capture" /\ load_old_stdout = "stdout"
              /\ pyco_download_pending = FALSE
              /\ active_prompt = "none"
              /\ doc = <<Transcript>>
              /\ cursor = 1 /\ command_start_position = 0
         ELSE /\ sys_stdout = "stdout" /\ load_old_stdout = "none"
              /\ pyco_download_pending = TRUE
              /\ active_prompt = "yesno"
              /\ doc = <<Transcript, YesNoPrompt>>
              /\ cursor = 2 /\ command_start_position = 2

\* line 1461: a statement of pyco.py binds a name in the engine's globals
ScriptBind ==
  /\ InLoader
  /\ "pyco" \notin DOMAIN globals_dict
  /\ globals_dict' = Put(globals_dict, "pyco", "function pyco")
  /\ UNCHANGED <<code, locals_dict, input_response, input_event, interrupted, processVars,
                 pc, savedVars, captureVars, frameVars, signalVars, widgetVars, turn>>

\* the document after the messages were appended and the code prompt drawn
\* (lines 664-674 and 632-644)
ShownWithPrompt(messages) ==
  /\ doc' = <<Transcript>> \o messages \o <<CodePrompt>>
  /\ command_start_position' = Len(doc')
  /\ cursor' = Len(doc')

\* the end of the caller: check_pyco_file draws the prompt (line 1485),
\* on_download_finished adds its own message when load_pyco_file returned
\* False, clears pyco_download_pending and draws the prompt (lines 1515-1524)
LoaderCallerEnds(loaded, messages) ==
  /\ insert_prompt
  /\ IF AtStartup
       THEN /\ ShownWithPrompt(messages)
            /\ pyco_download_pending' = pyco_download_pending
       ELSE /\ ShownWithPrompt(IF loaded THEN messages ELSE Append(messages, CouldNotLoad))
            /\ pyco_download_pending' = FALSE

\* lines 1461-1472: the script ran to its end; sys.stdout is put back and
\* load_pyco_file returns True
LoadReturn ==
  /\ InLoader
  /\ "pyco" \in DOMAIN globals_dict
  /\ sys_stdout' = load_old_stdout
  /\ load_old_stdout' = "none"
  /\ LoaderCallerEnds(TRUE, <<>>)
  /\ UNCHANGED <<engineVars, sys_stderr, builtins_input, builtins_underscore,
                 sys_displayhook, sys_excepthook, pc, savedVars, captureVars, frameVars,
                 signalVars, waiting_for_input, command_history, history_index,
                 downloads, turn>>

\* lines 1461 and 1469-1475: the script raises e. `finally` puts sys.stdout
\* back. `except Exception` reports e and returns False; an exception
\* outside of Exception leaves load_pyco_file, check_pyco_file, the
\* constructor (line 1204) and main: the process is over, its window never
\* shown. An exception of that kind leaving the slot on_download_finished
\* is left out.
LoadRaise(e) ==
  /\ InLoader
  /\ sys_stdout' = load_old_stdout
  /\ IF e = "Exception"
       THEN /\ load_old_stdout' = "none"
            /\ LoaderCallerEnds(FALSE, <<ErrorLoading>>)
       ELSE /\ AtStartup
            /\ load_old_stdout' = "exited"
            /\ UNCHANGED <<pyco_download_pending, active_prompt, editorVars>>
  /\ UNCHANGED <<engineVars, sys_stderr, builtins_input, builtins_underscore,
                 sys_displayhook, sys_excepthook, pc, savedVars, captureVars, frameVars,
                 signalVars, waiting_for_input, command_history, history_index,
                 downloads, turn>>

\* lines 1509-1515 and 1456-1460: download_finished(True) is handled and
\* load_pyco_file is entered; or the download failed (lines 1518-1524)
DownloadHandled ==
  \/ LoadBegin
  \/ DownloadFailed /\ PromptDrawn(CodePrompt)

\* ---------------------------------------------------------- the system
\* what every turn does
RunStep ==
  \/ RunBegin \/ CompileEval \/ CompileExec
  \/ Finally \/ Epilogue \/ ThreadFinished

\* arbitrary code that installs hooks, prints, raises and returns
CodeStep ==
  \/ UserPrint
  \/ \E which \in {"displayhook", "excepthook"}, h \in {"default", "custom", "absent"} :
       UserSetHook(which, h)
  \/ \E cls \in ExcClasses : UserRaise(cls)
  \/ \E v \in Values \cup {None} : UserReturn(v)
  \/ KeyboardInterruptHandler

\* the display hook and the exception hook, whichever is installed
HookStep ==
  \/ DisplayHookDefault \/ DisplayNoHook
  \/ \E assign \in Values \cup {Absent}, ret \in Values \cup {None} :
       DisplayHookCustom(assign, ret)
  \/ \E cls \in ExcClasses : DisplayHookRaises(cls)
  \/ ExceptHookDefault \/ ExceptNoHook
  \/ \E ret \in Values \cup {None}, writes \in BOOLEAN : ExceptHookCustom(ret, writes)
  \/ \E cls \in ExcClasses : ExceptHookRaises(cls)

\* arbitrary code that prints, reads input, raises and returns
InputCodeStep ==
  \/ UserPrint \/ UserPrintErr \/ UserCallInput(InputPrompt)
  \/ \E cls \in ExcClasses : UserRaise(cls)
  \/ \E v \in Values \cup {None} : UserReturn(v)
  \/ InputFlush \/ InputRequest \/ InputReturn
  \/ \E caught \in BOOLEAN : InputInterrupted(caught)
  \/ KeyboardInterruptHandler

\* the named fragments
NamedStep == ExecAssign \/ EvalName

\* The session of arbitrary code and arbitrary hooks: the user submits
\* expressions, statement sequences and invalid text, and presses Ctrl+C.
Next ==
  \/ RunStep \/ CodeStep \/ HookStep
  \/ \E command \in GenericLines : handle_return(command)
  \/ handle_ctrl_c
  \/ on_execution_finished

Spec == Init /\ [][Next]_vars

\* The session of code that reads input, under the interpreter's own hooks:
\* the user submits code, answers the requests and presses Ctrl+C.
NextInput ==
  \/ RunStep \/ InputCodeStep
  \/ DisplayHookDefault \/ ExceptHookDefault
  \/ \E command \in InputLines \cup Replies : handle_return(command)
  \/ handle_ctrl_c
  \/ on_execution_finished \/ on_input_requested \/ append_output_only

SpecInput == Init /\ [][NextInput]_vars

\* the fragment "ask"
AskStep == AskPrint \/ AskInput \/ AskEnd

\* The session of the fragment "ask": the user submits it, answers its
\* requests with an empty line or with text, and presses Ctrl+C.
NextPrompt ==
  \/ RunStep \/ AskStep
  \/ InputFlush \/ InputRequest \/ InputReturn \/ InputInterrupted(FALSE)
  \/ KeyboardInterruptHandler
  \/ \E v \in {"int5", None} : UserReturn(v)
  \/ DisplayHookDefault
  \/ \E command \in AskLines \cup Replies : handle_return(command)
  \/ handle_ctrl_c_recorded
  \/ on_execution_finished \/ on_input_requested \/ append_output_only

SpecPrompt == Init /\ [][NextPrompt]_vars

\* The session of the named fragments and of empty lines, and the engine
\* run directly with a fragment, under the interpreter's own hooks.
NextNamed ==
  \/ RunStep \/ NamedStep
  \/ DisplayHookDefault \/ ExceptHookDefault
  \/ \E command \in NamedLines \cup BlankLines : handle_return(command)
  \/ \E fragment \in NamedLines \cup BlankLines : DirectRun(fragment)
  \/ handle_ctrl_c
  \/ on_execution_finished

SpecNamed == Init /\ [][NextNamed]_vars

\* The session with the extension loader: the user submits code and starts
\* downloads from the menu; the handlers of the controller's thread run one
\* at a time, the worker runs beside them.
NextLoad ==
  \/ RunStep
  \/ UserPrint
  \/ \E v \in {"int5", None} : UserReturn(v)
  \/ DisplayHookDefault
  \/ \E command \in InputLines : SubmitLine(command)
  \/ DeliverFinished
  \/ update_pyco
  \/ on_download_finished

SpecLoad == Init /\ [][NextLoad]_vars

\* the keys that insert a character
TypedKeys == {"x=5", "read", "y", "n"}
\* the text typed since the last Enter
RECURSIVE AfterLastBreak(_)
AfterLastBreak(text) ==
  IF text = <<>> \/ text[Len(text)] = LineBreak THEN <<>>
  ELSE Append(AfterLastBreak(SubSeq(text, 1, Len(text) - 1)), text[Len(text)])
CurrentLine == AfterLastBreak(get_current_command)
\* the user types one key on an empty line
TypeKey(t) == CurrentLine = <<>> /\ KeyChar(t)

\* typing, submitting, recalling and completing lines
EditorStep ==
  \/ \E t \in TypedKeys : TypeKey(t)
  \/ KeyReturn \/ KeyTab \/ KeyUp \/ KeyDown \/ KeyCtrlC

\* The session at the widget: the user types, edits, recalls, completes and
\* submits lines, answers the yes/no question and the input requests of the
\* fragment "read", and clicks into the document.
NextEdit ==
  \/ RunStep \/ ReadInput \/ ReadEnd \/ ExecAssign
  \/ InputFlush \/ InputRequest \/ InputReturn \/ InputInterrupted(FALSE)
  \/ KeyboardInterruptHandler \/ ExceptHookDefault
  \/ EditorStep
  \/ on_execution_finished_shown \/ on_input_requested_shown
  \/ on_download_finished_shown \/ CancelDownload

SpecEdit == InitEdit /\ [][NextEdit]_vars

\* The session of the editing keys: the user types and submits the fragment
\* "read", answers its request, and moves and deletes with the keys of the
\* line editor.
NextKeys ==
  \/ RunStep \/ ReadInput \/ ReadEnd
  \/ InputFlush \/ InputRequest \/ InputReturn \/ InputInterrupted(FALSE)
  \/ KeyboardInterruptHandler
  \/ \E t \in {"read"} : TypeKey(t)
  \/ KeyReturn \/ KeyUp \/ KeyDown \/ KeyHome \/ KeyEnd \/ KeyLeft \/ KeyBackspace
  \/ KeyCtrlK \/ KeyCtrlC
  \/ on_execution_finished_shown \/ on_input_requested_shown

SpecKeys == Init /\ [][NextKeys]_vars

\* The session of recall: the user types and submits the fragments `x = 5`
\* and "read", answers the requests, and recalls lines with Up and Down.
NextRecall ==
  \/ RunStep \/ ExecAssign \/ ReadInput \/ ReadEnd
  \/ InputFlush \/ InputRequest \/ InputReturn
  \/ \E t \in {"x=5", "read"} : TypeKey(t)
  \/ KeyReturn \/ KeyUp \/ KeyDown
  \/ on_execution_finished_shown \/ on_input_requested_shown

SpecRecall == Init /\ [][NextRecall]_vars

\* the keys typed in the session of completions
CompletionKeys == {"s", "n", "x=5"}
\* The session of completions: the user types the beginning of a name or
\* the fragment `x = 5`, deletes, completes and submits.
NextComplete ==
  \/ RunStep \/ ExecAssign \/ ExceptHookDefault
  \/ \E t \in CompletionKeys : TypeKey(t)
  \/ KeyReturn \/ KeyTab \/ KeyBackspace
  \/ on_execution_finished_shown

SpecComplete == InitEdit /\ [][NextComplete]_vars

\* the keys typed in the session from the constructor on
StartupKeys == {"x=5", "y", "p"}
\* The session from the constructor on: pyco.py is loaded at startup, or
\* fetched on the answer `y` and loaded then; the script binds its name and
\* ends or fails; the user submits `x = 5`, completes `p`, and presses Ctrl+C
\* and Ctrl+L.
NextStartup ==
  \/ ScriptBind \/ LoadReturn
  \/ \E e \in ScriptFailures : LoadRaise(e)
  \/ DownloadHandled \/ CancelDownload
  \/ RunStep \/ ExecAssign
  \/ \E t \in StartupKeys : TypeKey(t)
  \/ KeyReturn \/ KeyTab \/ KeyCtrlC \/ KeyCtrlL
  \/ on_execution_finished_shown

SpecStartup == InitStartup /\ [][NextStartup]_vars

\* the keys that begin a line in the session of member completions
AssistKeys == {"n", "x=5", Walrus}
\* a separator or a blank typed behind the text of the line
TypeDot == CurrentLine /= <<>> /\ KeyChar(Dot)
TypeSpace == CurrentLine /= <<>> /\ KeyChar(" ")
\* The session of member completions: the user types the beginning of a
\* name, the fragment `x = 5` or the expression `(y:=5)`, a separator or a
\* blank behind it, deletes, completes and submits.
NextAssist ==
  \/ RunStep \/ ExecAssign \/ ExceptHookDefault
  \/ \E t \in AssistKeys : TypeKey(t)
  \/ TypeDot \/ TypeSpace
  \/ KeyReturn \/ KeyTab \/ KeyBackspace
  \/ on_execution_finished_shown

SpecAssist == InitEdit /\ [][NextAssist]_vars

\* the texts a client resolves a request with
DirectReplies == { <<"t">>, <<"u">> }
\* The engine at its interface: a client runs the fragment "read" and calls
\* provide_input and interrupt_execution whenever it likes; the widget's
\* slots receive the signals.
NextEngine ==
  \/ RunStep \/ ReadInput \/ ReadEnd
  \/ InputFlush \/ InputRequest \/ InputReturn \/ InputInterrupted(FALSE)
  \/ KeyboardInterruptHandler
  \/ \E fragment \in ReadLines : DirectRun(fragment)
  \/ \E user_input \in DirectReplies : DirectProvide(user_input)
  \/ DirectInterrupt
  \/ on_execution_finished \/ on_input_requested

SpecEngine == Init /\ [][NextEngine]_vars

\* ------------------------------------------------------------ properties
\* run is over: it returned ("done") or an exception left it ("crashed")
TurnOver == pc \in {"done", "crashed"}
LastEvent == events[Len(events)]
IsValue(v) == v \in Values
\* the Namespace entry '_'
Underscore == GlobalsRead("_")
\* the fragment was executed as a statement sequence
StatementTurn == phase = "exec"

\* C1: in a turn, execution_finished is emitted at most once and no signal of
\* the turn is emitted after it.
C1_TerminalEventOnceAndLast ==
  \A i \in 1..Len(events) : events[i].sig = "execution_finished" => i = Len(events)
\* a cancelled turn that flushed output and asked for input has ended
C1_Witness ==
  /\ pc = "done" /\ Len(events) >= 3
  /\ events[1].sig = "output_ready" /\ events[2].sig = "input_requested"
  /\ LastEvent = Finished(InterruptText, TRUE)

\* C2: a turn whose code has stopped ends with its terminal event, and no
\* exception leaves run.  (Violated: an exception that is no Exception, such
\* as SystemExit, leaves run and no terminal event is emitted.)
C2_TurnEndsWithTerminalEvent ==
  TurnOver => /\ pc = "done"
              /\ events /= <<>>
              /\ LastEvent.sig = "execution_finished"

\* C3: whatever way control leaves the try statement of run, sys.stdout,
\* sys.stderr and builtins.input are then what they were when the turn
\* installed its redirection.
C3_RestoredOnEveryExit ==
  [][(pc = "finally" /\ pc' /= "finally")
       => (sys_stdout' = old_stdout /\ sys_stderr' = old_stderr
           /\ builtins_input' = old_input)]_vars
\* the exception hook raised twice and the exception left run
C3_Witness ==
  /\ pc = "crashed" /\ turn.excepthook_calls = 2
  /\ sys_stdout = "stdout" /\ sys_stderr = "stderr" /\ builtins_input = "input"

C5_UnderscoreIsHookReturnOrValue ==
  (pc = "done" /\ IsValue(turn.evaluated) /\ ~turn.raised
     /\ turn.display_assigned = Absent)
    => Underscore = (IF IsValue(turn.display_ret) THEN turn.display_ret ELSE turn.evaluated)

\* C6: after the display hook returned, '_' is the value the hook assigned to
\* builtins._ if it assigned one, and otherwise the engine's own update (the
\* hook's return value or the expression's value), never a placeholder.
C6_HookUpdateDetected ==
  (pc = "done" /\ IsValue(turn.evaluated) /\ ~turn.raised /\ turn.display_ret /= Absent)
    => IF turn.display_assigned /= Absent
         THEN Underscore = turn.display_assigned /\ result_value = None
         ELSE /\ Underscore /= FreshObject
              /\ Underscore = (IF IsValue(turn.display_ret) THEN turn.display_ret
                               ELSE turn.evaluated)

\* C7: when the code raised an exception other than KeyboardInterrupt (and an
\* exception hook is installed), the hook was called once; a non-null return
\* value is in '_', and otherwise the turn is marked raised and '_' is as before.
C7_HookCalledOnce ==
  (TurnOver /\ turn.code_raised \notin {"none", "KeyboardInterrupt"}
     /\ sys_excepthook /= "absent")
    => /\ turn.excepthook_calls = 1
       /\ IsValue(turn.excepthook_ret) => Underscore = turn.excepthook_ret
       /\ ~IsValue(turn.excepthook_ret)
            => (exception_occurred /\ Underscore = turn.underscore0)

\* C8 as stated: once x is bound at top level, a turn of its own for `x`
\* ends with a terminal event whose text is the bound value's repr, is_error
\* false.
C8_Original ==
  (pc = "done" /\ compiled = <<"x">> /\ ~turn.code_replaced /\ "x" \in DOMAIN locals_dict)
    => LastEvent = Finished(<<Repr(locals_dict["x"])>>, FALSE)
\* C8 as amended: once x is bound at top level, a turn of its own for `x` (no
\* other fragment was submitted while it ran) evaluates to the bound value,
\* and its terminal event's text is the value's repr followed by a newline,
\* is_error false.
C8_BoundNameVisibleLater ==
  (pc = "done" /\ compiled = <<"x">> /\ ~turn.code_replaced /\ "x" \in DOMAIN locals_dict)
    => /\ turn.evaluated = locals_dict["x"]
       /\ LastEvent = Finished(<<Repr(locals_dict["x"]), "\n">>, FALSE)
\* `x = 5` was executed in an earlier turn and the turn `x` has ended
C8_Witness ==
  /\ pc = "done" /\ compiled = <<"x">> /\ ~turn.code_replaced /\ turn.evaluated = "int5"
  /\ LastEvent = Finished(<<"5", "\n">>, FALSE)

\* C9: a name bound at top level reads the same through the globals mapping
\* (globals(), function bodies, completion) as at top level.  (Violated: the
\* binding is in locals_dict and globals()['x'] raises KeyError.)
C9_SingleNamespace ==
  /\ \A n \in DOMAIN locals_dict : GlobalsRead(n) = TopLevelRead(n)
  /\ (pc = "done" /\ compiled = <<"g">> /\ "x" \in DOMAIN locals_dict)
       => turn.evaluated = locals_dict["x"]

C11_EvaluatedOnce ==
  /\ turn.executed <= 1
  /\ (phase = "exec" /\ ~turn.code_replaced) => turn.evaluated = Absent

\* C12 as stated: a turn that ends normally emits the captured
\* standard-output followed, when the captured standard-error is non-empty,
\* by a newline and the standard-error; is_error is true exactly when the
\* captured standard-error is non-empty.
C12_Original ==
  (pc = "done" /\ exit_mode = "normal")
    => LastEvent = Finished(IF stderr_capture /= <<>>
                              THEN stdout_capture \o <<"\n">> \o stderr_capture
                              ELSE stdout_capture,
                            stderr_capture /= <<>>)
\* C12 as amended: the text is the captured standard-output alone when the
\* captured standard-error is empty, the standard-error alone when the
\* standard-output is empty, and otherwise the standard-output, a newline and
\* the standard-error; is_error is true exactly when the captured
\* standard-error is non-empty, whether or not an exception hook returned a
\* value.
C12_TerminalEventText ==
  (pc = "done" /\ exit_mode = "normal")
    => /\ LastEvent.sig = "execution_finished"
       /\ LastEvent.is_error = (stderr_capture /= <<>>)
       /\ LastEvent.text =
            CASE stderr_capture = <<>> -> stdout_capture
              [] stdout_capture = <<>> -> stderr_capture
              [] OTHER -> stdout_capture \o <<"\n">> \o stderr_capture
\* an exception hook returned a value after writing to standard-error, in a
\* turn that had printed: both texts are in the event and is_error is true
C12_Witness ==
  /\ pc = "done" /\ exit_mode = "normal" /\ IsValue(turn.excepthook_ret)
  /\ stdout_capture /= <<>> /\ stderr_capture /= <<>>
  /\ LastEvent = Finished(stdout_capture \o <<"\n">> \o stderr_capture, TRUE)

\* the turn ran the fragment c and no other fragment was submitted while it ran
TurnOf(c) == TurnOver /\ code = c /\ ~turn.code_replaced

\* C13: the turn of a fragment that is neither an expression nor a statement
\* sequence ends with one terminal event, is_error true, whose text is the
\* syntax diagnostic; nothing was executed and the Namespace is as before,
\* whatever exception hook is installed.  (Violated: the hook of the session
\* decides the text and the flag, its return value is stored in '_', and when
\* it raises twice no terminal event is emitted.)
C13_InvalidFragmentReported ==
  TurnOf(<<"?">>)
    => /\ pc = "done" /\ Len(events) = 1
       /\ LastEvent.sig = "execution_finished" /\ LastEvent.is_error
       /\ LastEvent.text \in { <<"Traceback", "SyntaxError", "\n">>,
                               <<"SyntaxError", ": ", "msg", "\n">> }
       /\ turn.executed = 0
       /\ Underscore = turn.underscore0 /\ ~turn.engine_wrote

\* C14: when the display hook or the exception hook of the session raised
\* during the turn, run still returns and the turn ends with exactly one
\* terminal event, which carries the default rendering of the failure.
\* (Violated: a hook that raises in the inner handler is called again by the
\* outer one, and when it raises again the exception leaves run.)
C14_HookFailureContained ==
  (TurnOver /\ turn.hook_raised)
    => /\ pc = "done"
       /\ Len(events) = 1 /\ LastEvent.sig = "execution_finished"
       /\ LastEvent.is_error

\* the events of the turn ahead of its terminal event
IsNotTerminal(e) == e.sig /= "execution_finished"
NonTerminalEvents == SelectSeq(events, IsNotTerminal)
\* what a sequence of input calls must have emitted: for each call, in call
\* order, the output written since the previous flush (if any) and then the
\* request with the call's prompt
RECURSIVE ExpectedEvents(_)
ExpectedEvents(calls) ==
  IF calls = <<>> THEN <<>>
  ELSE LET c == Head(calls)
       IN (IF c.out /= <<>> THEN <<OutputReady(c.out)>> ELSE <<>>)
            \o <<InputRequested(c.prompt)>> \o ExpectedEvents(Tail(calls))

\* C15: every call of input() emits one input_requested with its prompt, in
\* call order, each preceded by an output_ready with the standard-output
\* written since the previous flush; the fragment "ask", which prints and
\* calls input twice, emits its two outputs and two requests alternately.
C15_OneRequestPerCall ==
  /\ pc \notin {"input_flush", "input_request"}
       => NonTerminalEvents = ExpectedEvents(turn.calls)
  /\ (pc = "done" /\ compiled = <<"ask">> /\ exit_mode = "normal")
       => events = << OutputReady(<<"out">>), InputRequested(InputPrompt),
                      OutputReady(<<"more">>), InputRequested(NamePrompt),
                      Finished(<<>>, FALSE) >>
\* the fragment "ask" was answered twice and has ended
C15_Witness ==
  /\ pc = "done" /\ compiled = <<"ask">> /\ exit_mode = "normal"
  /\ Len(turn.calls) = 2 /\ Len(events) = 5
  /\ events[2] = InputRequested(InputPrompt) /\ events[4] = InputRequested(NamePrompt)

\* the wait of an input call ends after a line was supplied for it
SuppliedLineResolves ==
  pc = "input_wait" /\ pc' /= "input_wait" /\ input_response /= NoResponse

\* C16: an input request that is resolved by a supplied line returns exactly
\* that line to the calling code, also when an earlier request of the turn
\* was cancelled and the code caught the interrupt.
C16_SuppliedLineReturned ==
  [][SuppliedLineResolves => turn'.input_returned = input_response]_vars

\* the interrupted outcome, lines 237-242
InterruptOutcome == Finished(InterruptText, TRUE)
\* Ctrl+C was pressed during an input wait of the turn: `interrupted` is
\* cleared when run begins and set by that key alone
TurnCancelled == interrupted
TerminalEvents == SelectSeq(events, LAMBDA e : e.sig = "execution_finished")

\* C17: a turn that was cancelled during an input wait ends with exactly one
\* terminal event, the interrupted outcome, and emits nothing after it,
\* whatever the code does with the KeyboardInterrupt raised by input().
C17_CancelledTurnInterrupted ==
  (TurnOver /\ TurnCancelled)
    => /\ pc = "done"
       /\ TerminalEvents = <<InterruptOutcome>>
       /\ LastEvent = InterruptOutcome

\* C18: the terminal event of a turn is the interrupted outcome if and only
\* if the turn was ended by a cancellation.
C18_InterruptOutcomeDistinct ==
  (TurnOver /\ events /= <<>>)
    => (LastEvent = InterruptOutcome <=> TurnCancelled)

\* what belongs to the turn: the engine, the interpreter's settings, the
\* position of run, its captures and its events
turnVars == <<engineVars, processVars, pc, savedVars, captureVars, frameVars, signalVars>>

\* C19: Ctrl+C pressed while the running turn is not waiting in input() leaves
\* the turn as it is: the Namespace, the engine's flags, the position of run,
\* its captures and its events do not change, so the turn goes on as without
\* the key; the fragment "ask" still emits its five events.
C19_IgnoredCancelKeepsTurn ==
  [][(KeyboardInterruptKey /\ TurnRunning /\ pc /= "input_wait") => UNCHANGED turnVars]_vars
\* the fragment "ask" ended normally although Ctrl+C arrived while it ran
C19_Witness ==
  /\ pc = "done" /\ compiled = <<"ask">> /\ exit_mode = "normal"
  /\ turn.cancel_ignored /\ ~interrupted
  /\ events = << OutputReady(<<"out">>), InputRequested(InputPrompt),
                 OutputReady(<<"more">>), InputRequested(NamePrompt),
                 Finished(<<>>, FALSE) >>

\* set_code was called: the fragment of the engine changes, or a running
\* turn has its fragment replaced
FragmentHandedOver == code' /= code \/ (~turn.code_replaced /\ turn'.code_replaced)
\* a turn was started and has not emitted its terminal event
TurnInFlight == pc \notin {"idle", "done", "crashed"}

\* C20: the widget hands no fragment to the executor while a turn is in
\* flight, whatever keys are pressed.
C20_TurnsSerialized == [][FragmentHandedOver => ~TurnInFlight]_vars

\* run has returned (or has not been started) and load_pyco_file is not executing
Quiescent == pc \in {"idle", "done", "crashed"} /\ MainThreadFree

\* C21: once neither a turn nor a load of pyco.py is in progress, sys.stdout
\* is the process's original handle, under every interleaving of the two.
C21_StdoutRestoredWhenQuiescent == Quiescent => sys_stdout = "stdout"

\* a Tab key pressed now is served by handle_tab_completion, that is, by
\* get_completions iterating the engine's globals (lines 821-824, 721)
CompletionServed == KeyDelivered /\ ~waiting_for_input /\ ~PreventEditing(FALSE)

\* C22: while the worker of a turn is running, a completion request is never
\* served by reading the engine's globals: in no state in which the Tab key
\* is served by get_completions is the worker running.
C22_NoCompletionDuringTurn == CompletionServed => ~TurnRunning

\* the step handles an input_requested event
RequestHandled ==
  /\ sigq /= <<>> /\ Head(sigq) = "input_requested"
  /\ sigq' = Tail(sigq)
\* the step releases the gate with a reply, or with a cancel, not with both
GateReleased ==
  /\ input_event = "clear" /\ input_event' = "set"
  /\ \/ input_response' /= NoResponse /\ interrupted' = interrupted
     \/ input_response' = NoResponse /\ interrupted'

ReleasedByReply == pc = "input_wait" /\ input_event = "set" /\ ~interrupted

\* C24: resolution of the input gate is idempotent at the engine interface:
\* once provide_input(t) released the pending request, no call arriving
\* before the worker resumes changes the response or cancels the request,
\* so that input() returns t; and what was called while no turn was in flight
\* is gone when a turn begins and when a request is made.
C24_GateResolutionIdempotent ==
  [][ /\ (ReleasedByReply /\ pc' = pc) =>
            (input_response' = input_response /\ interrupted' = interrupted)
      /\ (ReleasedByReply /\ pc' /= pc) =>
            (pc' = "user" /\ turn'.input_returned = ResponseOrEmpty(input_response))
      /\ (pc = "start" /\ pc' /= pc) => ~interrupted'
      /\ (pc = "input_request" /\ pc' /= pc) => input_response' = NoResponse ]_vars

\* Command History has no whitespace-only entry and no two equal adjacent
\* entries
HistoryWellFormed(history) ==
  /\ \A i \in 1..Len(history) : Strip(history[i]) /= <<>>
  /\ \A i \in 1..(Len(history) - 1) : history[i] /= history[i + 1]

\* C25: Command History changes only when a non-empty line is submitted in
\* the Editing state, by appending that line unless it equals the last entry;
\* replies to an input request or to the yes/no question, empty lines, recall
\* and completion leave it alone, and it never holds a whitespace-only entry
\* or two equal adjacent entries.
C25_HistoryOnlyByEditingSubmission ==
  [][ /\ command_history' /= command_history =>
            /\ ~waiting_for_input /\ ~pyco_download_pending
            /\ Strip(CurrentLine) /= <<>>
            /\ ~LastEntryIs(CurrentLine)
            /\ command_history' = Append(command_history, CurrentLine)
      /\ HistoryWellFormed(command_history') ]_vars

\* Enter on a non-empty line at the code prompt: the line is ended, the
\* cursor of the document is behind it
SubmissionStep ==
  /\ ~waiting_for_input /\ ~pyco_download_pending
  /\ Strip(get_current_command) /= <<>>
  /\ doc' = Append(doc, LineBreak) /\ cursor' = Len(doc')
\* the step hands a fragment to the executor or appends to History, which
\* only a submission does
FragmentSubmitted == code' /= code \/ command_history' /= command_history
\* the history cursor moves by one entry, History stays, and the Line Buffer
\* holds the entry under the cursor, or nothing past the newest
RecallStep ==
  /\ command_history /= <<>> /\ command_history' = command_history
  /\ history_index' \in {history_index - 1, history_index + 1}
  /\ get_current_command' = IF history_index' < Len(command_history)
                               THEN command_history[history_index' + 1] ELSE <<>>

\* C26: a non-empty submission leaves the history cursor past the end of
\* History; every other move of the cursor is a recall by one entry that
\* loads the entry (or the empty buffer past the newest) and leaves History
\* alone; the cursor stays within 0..length once History is non-empty.
C26_HistoryRecall ==
  [][ /\ command_history' /= <<>> =>
            (0 <= history_index' /\ history_index' <= Len(command_history'))
      /\ FragmentSubmitted => history_index' = Len(command_history')
      /\ history_index' /= history_index =>
            \/ SubmissionStep /\ history_index' = Len(command_history')
            \/ RecallStep ]_vars
\* History is [a, b] and two recalls back have loaded a
C26_Witness ==
  /\ command_history = << <<"x=5">>, <<"read">> >>
  /\ history_index = 0
  /\ get_current_command = command_history[1]

\* the Line Buffer with text inserted at the cursor
BufferWith(text) ==
  SubSeq(get_current_command, 1, CursorPos) \o text
    \o SubSeq(get_current_command, CursorPos + 1, Len(get_current_command))
\* the Line Buffer after a Tab pressed now
BufferAfterTab == IF TabListing THEN get_current_command ELSE BufferWith(TabInsertText)

\* C27: a completion request has three outcomes by the number of candidates:
\* none, the Line Buffer is unchanged; one, whatever the prefix, the missing
\* suffix of the candidate is inserted at the cursor; two or more, the
\* candidates are listed, the prompt is drawn again and the Line Buffer is
\* the text from before the request.
C27_CompletionOutcomes ==
  CompletionServed =>
    /\ Len(TabCompletions) = 0 =>
          (~TabListing /\ BufferAfterTab = get_current_command)
    /\ Len(TabCompletions) = 1 =>
          (~TabListing /\ BufferAfterTab = BufferWith(MissingSuffix(TabCompletions[1], TabWord)))
    /\ Len(TabCompletions) >= 2 =>
          (TabListing /\ BufferAfterTab = get_current_command)

\* the place of a name in the lexical order
Rank(name) == CHOOSE i \in 1..Len(LexicalOrder) : LexicalOrder[i] = name
\* the names a fragment at top level can read: those of both mappings
NamespaceNames == DOMAIN globals_dict \cup DOMAIN locals_dict
\* the names of a list
Members(list) == { list[i] : i \in 1..Len(list) }

\* C28: the candidates of a completion request are in lexical order, each
\* once; for a non-empty word they are the Namespace names and the built-in
\* names that begin with the word and not with an underscore; for the empty
\* word they are the Namespace names that do not begin with an underscore
\* and were not in the initial seed, those a user turn or the loaded
\* extension introduced.
C28_CandidateList ==
  CompletionServed =>
    /\ \A i, j \in 1..Len(TabCompletions) :
          i < j => Rank(TabCompletions[i]) < Rank(TabCompletions[j])
    /\ TabWord /= <<>> =>
          Members(TabCompletions) =
            { n \in NamespaceNames \cup BuiltinNames : StartsWith(n, TabWord) /\ ~IsPrivate(n) }
    /\ TabWord = <<>> =>
          Members(TabCompletions) =
            { n \in NamespaceNames : ~IsPrivate(n) /\ n \notin initial_globals }

\* the controller asks its yes/no question and awaits the answer, no
\* download or load being under way
AwaitingYesNo == pyco_download_pending /\ ~waiting_for_input /\ KeyDelivered
\* the line typed since the last Enter, trimmed and in lower case
Answer == Lower(Strip(CurrentLine))
\* what Enter does in that state: the fetch is started; the state is left
\* and the code prompt drawn; the question is asked again
FetchTriggered == downloads' = downloads + 1
StateLeftByAnswer ==
  /\ ~pyco_download_pending' /\ downloads' = downloads
  /\ doc' = <<Transcript, CodePrompt>>
Reprompted == doc' = <<Transcript, YesNoPrompt>> /\ doc' /= doc

\* C29: in the AwaitingYesNo state no line reaches the engine or History;
\* the fetch is started by the answers y and yes only, the state is left
\* with the prompt drawn again by n and no only, and the question is asked
\* again, the state staying, by every other line only.
C29_YesNoAnswers ==
  [][ AwaitingYesNo =>
        /\ code' = code /\ command_history' = command_history
        /\ FetchTriggered => Answer \in { <<"y">>, <<"yes">> }
        /\ StateLeftByAnswer => Answer \in { <<"n">>, <<"no">> }
        /\ Reprompted =>
              (pyco_download_pending' /\ Answer \notin { <<"y">>, <<"yes">>, <<"n">>, <<"no">> })
    ]_vars

\* C30: whatever keys are pressed, control-key combinations and the cursor
\* keys during a pending input request included, the editing cursor is never
\* below the protected-prefix boundary and the text up to the boundary is
\* never cut: the document reaches command_start_position.
C30_ProtectedPrefix ==
  /\ command_start_position <= cursor
  /\ command_start_position <= Len(doc)
\* the step on which load_pyco_file is left, by return or by an exception
LoaderLeft == InLoader /\ load_old_stdout' /= load_old_stdout
\* the script has not run to its end when the loader is left
ScriptFailedStep == LoaderLeft /\ (load_old_stdout' = "exited" \/ ErrorLoading \in Members(doc'))
\* the system messages shown in a document
MessagesIn(d) == { i \in 1..Len(d) : d[i] \in {ErrorLoading, CouldNotLoad} }

\* C31: the loader runs the script against the engine's globals, and a
\* failure of the script is not fatal: the loader returns, the failure is
\* shown as one system message, sys.stdout is the handle it was on entry,
\* the globals keep what the script had bound, and a code prompt is drawn.
C31_LoaderFailureNotFatal ==
  [][ScriptFailedStep =>
       /\ load_old_stdout' = "none"
       /\ sys_stdout' = load_old_stdout
       /\ globals_dict' = globals_dict
       /\ Cardinality(MessagesIn(doc')) = 1
       /\ doc'[Len(doc')] = CodePrompt /\ command_start_position' = Len(doc')]_vars


\* the step records a line in History or hands it to the executor (lines
\* 931-939): the fragment of the engine or History changes, a running turn
\* has its fragment replaced, or the thread is started
FragmentAccepted ==
  \/ code' /= code
  \/ command_history' /= command_history
  \/ ~turn.code_replaced /\ turn'.code_replaced
  \/ pc = "idle" /\ pc' = "start"
\* start() has begun a thread that will run the fragment just set
OwnTurnStarted == pc = "idle" /\ pc' = "start" /\ code' /= <<>>

\* C32: every line accepted as a code fragment starts a turn of its own,
\* whenever Enter is pressed: the thread is idle when the fragment is set and
\* is started by the same step, so the fragment is run once and gets its
\* terminal event.
C32_AcceptedFragmentRuns == [][FragmentAccepted => OwnTurnStarted]_vars

\* what the code of the turn has written and the engine has not yet sent
Captured == stdout_capture \o stderr_capture
\* the text of the turn's terminal event, nothing if the turn had none
TerminalText == IF TerminalEvents = <<>> THEN <<>> ELSE TerminalEvents[1].text
\* the text holds every captured token once: beside them it has at most the
\* line break the engine puts between the two streams, or the engine's own
\* text of the interrupted outcome
HoldsCapturedOnce(text) ==
  \/ text = Captured
  \/ text = stdout_capture \o <<"\n">> \o stderr_capture
  \/ text = Captured \o InterruptText
\* the step sends captured output ahead of an input request
OutputSent == Len(events') = Len(events) + 1 /\ events'[Len(events')].sig = "output_ready"

\* C33: no captured output is lost or duplicated. What is sent ahead of an
\* input request is taken out of the capture as it is sent, and when run is
\* over the terminal event's text holds what was left in the two captures,
\* once, whether the turn ended normally, with an error or interrupted.
C33_OutputDeliveredOnce ==
  /\ [](TurnOver => HoldsCapturedOnce(TerminalText))
  /\ [][OutputSent => /\ events'[Len(events')].text = stdout_capture
                      /\ stdout_capture' = <<>>]_vars

\* the prompt drawn last is the code prompt and no input request is pending
AtCodePrompt == active_prompt = "code" /\ ~waiting_for_input

\* C34: once a code prompt has been drawn the controller no longer awaits
\* the yes/no answer, so a line submitted at the code prompt is a code
\* fragment, whatever key drew the prompt.
C34_CodePromptTakesCode == AtCodePrompt => ~pyco_download_pending

\* the word before the cursor has a member separator, and resolving the part
\* before the separator raises
ResolutionFails ==
  TabWord /= <<>> /\ HasDot(TabWord) /\ EvalValue(ObjName(TabWord)) = EvalRaised

\* C35: a completion request leaves the engine's globals as they are,
\* whatever the text before the cursor: where the Tab key is served, the
\* globals after resolving the part before the separator are the globals
\* before, and a resolution that fails gives no candidate.
C35_CompletionHasNoEffect ==
  CompletionServed => /\ TabGlobals = globals_dict
                      /\ ResolutionFails => TabCompletions = <<>>

\* the text before the cursor once the Tab key was served
TextBeforeCursorAfterTab == SubSeq(get_current_command, 1, CursorPos) \o TabInsertText
\* the one candidate, as it is typed
OnlyCandidate ==
  IF TabWord /= <<>> /\ HasDot(TabWord) THEN TabCompletions[1] ELSE Spell(TabCompletions[1])
\* text.endswith(suffix)
EndsWith(text, suffix) ==
  /\ Len(suffix) <= Len(text)
  /\ SubSeq(text, Len(text) - Len(suffix) + 1, Len(text)) = suffix

\* C36: when a completion request finds exactly one candidate, the text
\* before the cursor ends with the whole name of the candidate afterwards,
\* also when the text before the cursor ended in a blank.
C36_SingleCandidateCompleted ==
  (CompletionServed /\ Len(TabCompletions) = 1)
    => EndsWith(TextBeforeCursorAfterTab, OnlyCandidate)

====
